---- MODULE Spec2Model ----
(***************************************************************************)
(* A model of futhorc, a static site generator built as a graph of actors  *)
(* connected by unbuffered channels.                                        *)
(*                                                                          *)
(*   SpecOrder     the ordering and pagination functions (OrderPages,       *)
(*                 Indexer ingest, Index.Paginate) applied to bounded       *)
(*                 lists of posts.                                          *)
(***************************************************************************)
EXTENDS Integers, Naturals, Sequences, FiniteSets, TLC

(***************************************************************************)
(* Bounds of the model.                                                     *)
(***************************************************************************)
MaxPosts == 3        \* posts handed to the Orderer / Indexer functions
MaxOrder == 3        \* order keys (dates) are drawn from 1..MaxOrder
MaxPageSize == 2     \* Paginate is applied with size in 1..MaxPageSize
MaxFiles == 2        \* files of the site, under posts/ and theme/static together

Nil == "nil"         \* the nil *url.URL / nil error

Min(a, b) == IF a < b THEN a ELSE b

(***************************************************************************)
(* Strings and paths.                                                       *)
(***************************************************************************)
markdownSuffix == ".md"
htmlSuffix == ".html"

HasSuffix(s, suffix) ==
    /\ Len(s) >= Len(suffix)
    /\ SubSeq(s, Len(s) - Len(suffix) + 1, Len(s)) = suffix

HasPrefix(s, prefix) ==
    /\ Len(s) >= Len(prefix)
    /\ SubSeq(s, 1, Len(prefix)) = prefix

Digit(d) ==
    CASE d = 0 -> "0" [] d = 1 -> "1" [] d = 2 -> "2" [] d = 3 -> "3"
      [] d = 4 -> "4" [] d = 5 -> "5" [] d = 6 -> "6" [] d = 7 -> "7"
      [] d = 8 -> "8" [] d = 9 -> "9"

RECURSIVE Itoa(_)
Itoa(n) == IF n < 10 THEN Digit(n) ELSE Itoa(n \div 10) \o Digit(n % 10)

\* fmt.Sprintf("%03d", n): at least three digits, zero padded
Pad3(n) ==
    IF n < 10 THEN "00" \o Itoa(n)
    ELSE IF n < 100 THEN "0" \o Itoa(n)
    ELSE Itoa(n)

\* filepath.Join of a directory and a relative file name
PathJoin(dir, name) == IF dir = "" THEN name ELSE dir \o "/" \o name

convertPath(p) ==
    IF HasSuffix(p, markdownSuffix)
    THEN SubSeq(p, 1, Len(p) - Len(markdownSuffix)) \o htmlSuffix
    ELSE p

(***************************************************************************)
(* URLs (net/url).  A URL is the record of its parts: Root stands for the   *)
(* scheme and the host.  The model's paths hold no dot segment, no colon    *)
(* and no percent sign; no URL text ends in a question mark or a number     *)
(* sign, and http is the one scheme.                                        *)
(***************************************************************************)
\* The site base URL as url.Parse returns it (its path ends in a slash, as
\* LoadPipeline arranges for the default site root)
BaseURL == [Root |-> "http://site", Path |-> "/", RawQuery |-> "", Fragment |-> ""]

\* strings.Cut for a one-byte separator, looking from position i on
RECURSIVE CutFrom(_, _, _)
CutFrom(s, sep, i) ==
    IF i > Len(s) THEN [before |-> s, after |-> ""]
    ELSE IF SubSeq(s, i, i) = sep
    THEN [before |-> SubSeq(s, 1, i - 1), after |-> SubSeq(s, i + 1, Len(s))]
    ELSE CutFrom(s, sep, i + 1)

Cut(s, sep) == CutFrom(s, sep, 1)

httpScheme == "http://"

\* url.Parse: what follows the first "#" is the fragment, what follows the
\* first "?" of the rest is the query; after a scheme the authority runs up
\* to the next "/"
Parse(rawURL) ==
    LET f == Cut(rawURL, "#")
        q == Cut(f.before, "?")
        rest == q.before
        host == Cut(SubSeq(rest, Len(httpScheme) + 1, Len(rest)), "/").before
    IN  IF HasPrefix(rest, httpScheme)
        THEN [Root |-> httpScheme \o host,
              Path |-> SubSeq(rest, Len(httpScheme) + Len(host) + 1, Len(rest)),
              RawQuery |-> q.after, Fragment |-> f.after]
        ELSE [Root |-> "", Path |-> q.before, RawQuery |-> q.after,
              Fragment |-> f.after]

\* The directory of a path: base[:strings.LastIndex(base, "/")+1]
RECURSIVE DirOf(_)
DirOf(path) ==
    IF path = "" \/ SubSeq(path, Len(path), Len(path)) = "/" THEN path
    ELSE DirOf(SubSeq(path, 1, Len(path) - 1))

\* URL.ResolveReference: a reference with a scheme or a host is returned as
\* it is, any other is resolved against the base
ResolveReference(base, ref) ==
    IF ref.Root # "" THEN ref
    ELSE
    [Root     |-> base.Root,
     Path     |-> IF ref.Path = "" THEN base.Path
                  ELSE IF SubSeq(ref.Path, 1, 1) = "/" THEN ref.Path
                  ELSE DirOf(base.Path) \o ref.Path,
     RawQuery |-> IF ref.Path = "" /\ ref.RawQuery = ""
                  THEN base.RawQuery ELSE ref.RawQuery,
     Fragment |-> IF ref.Path = "" /\ ref.RawQuery = "" /\ ref.Fragment = ""
                  THEN base.Fragment ELSE ref.Fragment]

\* path.Join of a path and further elements: empty elements are dropped
RECURSIVE JoinElems(_, _)
JoinElems(path, elem) ==
    IF elem = <<>> THEN path
    ELSE IF Head(elem) = "" THEN JoinElems(path, Tail(elem))
    ELSE JoinElems(
            (IF path # "" /\ SubSeq(path, Len(path), Len(path)) = "/"
             THEN path ELSE path \o "/") \o Head(elem),
            Tail(elem))

\* URL.JoinPath
JoinPath(base, elem) == [base EXCEPT !.Path = JoinElems(base.Path, elem)]

\* The escaping URL.String applies to a path: of the bytes of the model's
\* paths, "#", "?" and the space are percent-encoded
RECURSIVE EscapePath(_)
EscapePath(s) ==
    IF s = "" THEN ""
    ELSE LET c == SubSeq(s, 1, 1)
         IN  (CASE c = "#" -> "%23"
                [] c = "?" -> "%3F"
                [] c = " " -> "%20"
                [] OTHER -> c) \o EscapePath(SubSeq(s, 2, Len(s)))

\* URL.String
URLString(u) ==
    u.Root \o EscapePath(u.Path)
           \o (IF u.RawQuery # "" THEN "?" \o u.RawQuery ELSE "")
           \o (IF u.Fragment # "" THEN "#" \o u.Fragment ELSE "")

\* (mutant) the file name IndexPage.PageContent gives: page-000.html for
\* page 0 as well
IndexFileNameAlwaysNumbered(pageNumber) ==
    "page-" \o Pad3(pageNumber) \o htmlSuffix

\* IndexPageConverter.Convert's file name for a page number
IndexFileName(pageNumber) ==
    IF pageNumber = 0 THEN "index.html"
    ELSE "page-" \o Pad3(pageNumber) \o htmlSuffix

\* The index ids of the model (the tag texts and the global id) and the
\* paths of its pages: a post page per source file, and the pages of an
\* index, which holds a post once for every time the post carries the tag
IndexIDs == {"", "go", "ops", "posts", "c#"}

PagePaths ==
    {PathJoin("posts", convertPath(name \o markdownSuffix)) :
        name \in {"index"} \cup {"p" \o Itoa(i) : i \in 1..(MaxPosts + MaxFiles)}}
    \cup {PathJoin(id, IndexFileName(k)) :
            id \in IndexIDs, k \in 0..(2 * MaxPosts + MaxFiles)}

\* The URL PageConverter.Convert gives the page at each of these paths:
\* url.Parse(p.Path), BaseURL.ResolveReference, kept as the text URL.String
\* gives
PageURLs ==
    [path \in PagePaths |->
        URLString(ResolveReference(BaseURL, Parse(path)))]

\* PageConverter.Convert
PageConvert(directory, path, order, content) ==
    [Content |-> content,
     Order   |-> order,
     Path    |-> PathJoin(directory, path),
     URL     |-> PageURLs[PathJoin(directory, path)]]

(***************************************************************************)
(* Pages and their order.                                                   *)
(***************************************************************************)
\* Page.Compare
Compare(c, other) ==
    IF c.Order < other.Order THEN -1
    ELSE IF c.Order = other.Order THEN 0
    ELSE 1

\* OrderedPage{Page: page}: the links start nil
NewOrderedPage(page) ==
    [Content |-> page.Content, Order |-> page.Order, Path |-> page.Path,
     URL |-> page.URL, Next |-> Nil, Prev |-> Nil]

\* (mutant) the comparison with its receiver and argument exchanged
AscendingCmp(a, b) == Compare(a, b)

\* The comparison both sorts pass to slices.SortFunc:
\*   func(a, b) int { return b.Compare(&a.Page) }
DescendingCmp(a, b) == Compare(b, a)

Swap(s, i, j) == [s EXCEPT ![i] = s[j], ![j] = s[i]]

\* slices.SortFunc on a slice of at most 12 elements is an insertion sort:
\*   for i := 1; i < n; i++ {
\*       for j := i; j > 0 && cmp(s[j], s[j-1]) < 0; j-- { swap(j, j-1) } }
\* (positions here are 1-based)
RECURSIVE SiftDown(_, _)
SiftDown(s, j) ==
    IF j > 1 /\ DescendingCmp(s[j], s[j - 1]) < 0
    THEN SiftDown(Swap(s, j, j - 1), j - 1)
    ELSE s

RECURSIVE InsertionSort(_, _)
InsertionSort(s, i) ==
    IF i > Len(s) THEN s ELSE InsertionSort(SiftDown(s, i), i + 1)

SortFunc(s) == InsertionSort(s, 2)

\* (mutant) the first loop writing the link of the element before
SetPrevLinksBackwards(s) ==
    [i \in 1..Len(s) |->
        IF i > 1 THEN [s[i] EXCEPT !.Prev = s[i - 1].URL] ELSE s[i]]

\* OrderPages' first loop: orderedPages[i].Prev = orderedPages[i+1].URL
SetPrevLinks(s) ==
    [i \in 1..Len(s) |->
        IF i < Len(s) THEN [s[i] EXCEPT !.Prev = s[i + 1].URL] ELSE s[i]]

\* (mutant) the second loop starting one element late
SetNextLinksLate(s) ==
    [i \in 1..Len(s) |->
        IF i > 2 THEN [s[i] EXCEPT !.Next = s[i - 1].URL] ELSE s[i]]

\* OrderPages' second loop: orderedPages[i+1].Next = orderedPages[i].URL
SetNextLinks(s) ==
    [i \in 1..Len(s) |->
        IF i > 1 THEN [s[i] EXCEPT !.Next = s[i - 1].URL] ELSE s[i]]

\* OrderPages
OrderPages(orderedPages) ==
    IF Len(orderedPages) < 1 THEN orderedPages
    ELSE SetNextLinks(SetPrevLinks(SortFunc(orderedPages)))

(***************************************************************************)
(* The Indexer's indices.  An index holds pointers to the Orderer's         *)
(* ordered pages; a pointer is the position of the page in the Orderer's    *)
(* vector.                                                                  *)
(***************************************************************************)
GlobalID == ""

\* (mutant) fetchIndex making a new index on every call
fetchIndexAlwaysNew(indices, id) ==
    (id :> [ID |-> id, Posts |-> <<>>]) @@ indices

\* Indexer.fetchIndex: the index is created on first sight
fetchIndex(indices, id) ==
    IF id \in DOMAIN indices THEN indices
    ELSE indices @@ (id :> [ID |-> id, Posts |-> <<>>])

\* Index.Push on the index fetchIndex returns
Push(indices, id, p) ==
    [fetchIndex(indices, id) EXCEPT ![id].Posts = Append(@, p)]

RECURSIVE PushTags(_, _, _)
PushTags(indices, tags, p) ==
    IF tags = <<>> THEN indices
    ELSE PushTags(Push(indices, Head(tags), p), Tail(tags), p)

\* (mutant) the global index made whether or not the slice holds a post
RECURSIVE IndexSliceGlobalFirst(_, _, _)
IndexSliceGlobalFirst(indices, slice, i) ==
    IF i > Len(slice) THEN fetchIndex(indices, GlobalID)
    ELSE IndexSliceGlobalFirst(
            PushTags(Push(indices, GlobalID, i), slice[i].Content.Tags, i),
            slice, i + 1)

\* The body of Indexer.Run's receive case: every post of the slice goes to
\* the global index and to the index of each of its tags
RECURSIVE IndexSlice(_, _, _)
IndexSlice(indices, slice, i) ==
    IF i > Len(slice) THEN indices
    ELSE IndexSlice(
            PushTags(Push(indices, GlobalID, i), slice[i].Content.Tags, i),
            slice, i + 1)

\* IndexPageConverter.Convert (postsStart, postsEnd as in idx.Posts[a:b])
IndexPageConvert(idx, pageNumber, postsStart, postsEnd) ==
    PageConvert(
        "",
        PathJoin(idx.ID, IndexFileName(pageNumber)),
        pageNumber,
        [IndexID |-> idx.ID,
         Number  |-> pageNumber,
         Posts   |-> SubSeq(idx.Posts, postsStart + 1, postsEnd)])

\* The sort at the head of Index.Paginate: pointers compared through the
\* pages they point to
SortPosts(posts, slice) ==
    LET keyed == [i \in 1..Len(posts) |->
                    [ptr |-> posts[i], Order |-> slice[posts[i]].Order]]
        sorted == SortFunc(keyed)
    IN  [i \in 1..Len(posts) |-> sorted[i].ptr]

\* (mutant) the remainder page forgotten
PaginatePagesNoRemainder(idx, size) ==
    [i \in 1..(Len(idx.Posts) \div size) |->
        NewOrderedPage(IndexPageConvert(idx, i - 1, (i - 1) * size, i * size))]

\* Index.Paginate's two appends: the full pages, then the remainder
PaginatePages(idx, size) ==
    LET n == Len(idx.Posts)
        full == [i \in 1..(n \div size) |->
                    NewOrderedPage(
                        IndexPageConvert(idx, i - 1, (i - 1) * size, i * size))]
    IN  IF n % size > 0
        THEN Append(full,
                    NewOrderedPage(
                        IndexPageConvert(idx, n \div size,
                                         (n \div size) * size, n)))
        ELSE full

\* (mutant) the pages returned in the order they were built, unlinked
PaginateUnordered(idx, size, slice) ==
    LET sortedIdx == [idx EXCEPT !.Posts = SortPosts(idx.Posts, slice)]
    IN  [idx |-> sortedIdx, pages |-> PaginatePages(sortedIdx, size)]

\* Index.Paginate: the sorted index and the ordered pages it returns
Paginate(idx, size, slice) ==
    LET sortedIdx == [idx EXCEPT !.Posts = SortPosts(idx.Posts, slice)]
    IN  [idx |-> sortedIdx, pages |-> OrderPages(PaginatePages(sortedIdx, size))]

\* strings.Index: the 0-based position of the first occurrence, -1 if none
Index(s, sub) ==
    LET at == {k \in 0..(Len(s) - Len(sub)) :
                  SubSeq(s, k + 1, k + Len(sub)) = sub}
    IN  IF at = {} THEN -1 ELSE CHOOSE k \in at : \A j \in at : k <= j

MoreMarker == "<!-- more -->"
ParagraphEnd == "</p>"
SnippetMax == 1024

\* (mutant) snippet cutting after the marker it found
snippetKeepsMarker(data) ==
    IF Index(data, MoreMarker) >= 0
    THEN SubSeq(data, 1, Index(data, MoreMarker) + Len(MoreMarker))
    ELSE IF Index(data, ParagraphEnd) >= 0
    THEN SubSeq(data, 1, Min(Index(data, ParagraphEnd), SnippetMax))
    ELSE ""

\* (mutant) snippet without the cap on the paragraph rule
snippetUncapped(data) ==
    IF Index(data, MoreMarker) >= 0
    THEN SubSeq(data, 1, Index(data, MoreMarker))
    ELSE IF Index(data, ParagraphEnd) >= 0
    THEN SubSeq(data, 1, Index(data, ParagraphEnd))
    ELSE ""

\* snippet: data[:idx]
snippet(data) ==
    IF Index(data, MoreMarker) >= 0
    THEN SubSeq(data, 1, Index(data, MoreMarker))
    ELSE IF Index(data, ParagraphEnd) >= 0
    THEN SubSeq(data, 1, Min(Index(data, ParagraphEnd), SnippetMax))
    ELSE ""

\* markdown.Convert on a body that is one paragraph of plain text
MarkdownConvert(doc) == "<p>" \o doc \o "</p>\n"

\* PostPageConverter.tagURL
tagURL(tag) == JoinPath(BaseURL, <<tag, "index.html">>)

\* PostPageConverter.Convert: the page of a parsed post.  TagURLs[i] is
\* Tags[i].URL and Tags[i] is Tags[i].Text
PostPageConvert(post) ==
    PageConvert("posts", convertPath(post.Path), post.Date,
                [Path |-> convertPath(post.Path), Tags |-> post.Tags,
                 TagURLs |-> [i \in DOMAIN post.Tags |->
                                URLString(tagURL(post.Tags[i]))],
                 Author |-> post.Author, Date |-> post.Date,
                 Body |-> MarkdownConvert(post.Body),
                 Snippet |-> snippet(MarkdownConvert(post.Body))])

\* The frontmatter and body the model gives the post file at a source path
AuthorOf(path) == "author of " \o path

BodyOf(path) == "body of " \o path

\* A parsed post (Post) with the given date and tags
NewPost(path, date, tags) ==
    [Path |-> path, Date |-> date, Tags |-> tags, Author |-> AuthorOf(path),
     Body |-> BodyOf(path)]

(***************************************************************************)
(* The files the callbacks of the Templaters, the FeedBuilder and the       *)
(* FileCopier create.  A file is recorded with the actor that created it;   *)
(* a page's posts are pointers into the Orderer's vector (slice).           *)
(***************************************************************************)
jsonSuffix == ".json"

File(a, path, data) == [Actor |-> a, Path |-> path, Data |-> data]

\* The value a template is executed on: the page, its posts followed
Deref(page, slice) ==
    [page EXCEPT !.Content.Posts = [k \in DOMAIN @ |-> slice[@[k]]]]

\* NewTemplater's callback on a post page: exec(params.Output, page.Path, ..)
TemplatePost(page) == File("Templater[Post]", page.Path, page)

\* NewTemplater's callback on an index page
TemplateIndexPage(page, slice) ==
    File("Templater[IndexPage]", page.Path, Deref(page, slice))

\* FileCopier's callback: dst.Create, then io.Copy through the contextReader
ThemeAssetsDirectory == "static/theme"

FileCopier(path, canc) ==
    File("FileCopier::ThemeAssets", PathJoin(ThemeAssetsDirectory, path),
         IF canc THEN "" ELSE path)

\* buildFeedItem
buildFeedItem(p) ==
    [Author |-> p.Content.Author, Created |-> p.Content.Date,
     Link |-> p.URL, Description |-> p.Content.Snippet]

\* (mutant) buildFeedPage taking the posts of the page in reverse
buildFeedPageReversed(page, slice) ==
    [Link  |-> page.URL,
     Items |-> [i \in 1..Len(page.Content.Posts) |->
                  buildFeedItem(
                      slice[page.Content.Posts[
                                Len(page.Content.Posts) + 1 - i]])]]

\* buildFeedPage: the header (left out) with this page's link and items
buildFeedPage(page, slice) ==
    [Link  |-> page.URL,
     Items |-> [i \in 1..Len(page.Content.Posts) |->
                  buildFeedItem(slice[page.Content.Posts[i]])]]

\* json.Marshal of the feed with Next tagged `next_url,omitempty`
Marshal(feed, next) ==
    IF next = "" THEN feed ELSE [next_url |-> next] @@ feed

\* page.Path[:len(page.Path)-len(htmlSuffix)] + jsonSuffix
FeedPath(path) == SubSeq(path, 1, Len(path) - Len(htmlSuffix)) \o jsonSuffix

\* (mutant) buildFeed never sending a next_url
FeedNextDropped(page) == ""

\* if page.Next != nil { next = page.Next.String() }
FeedNext(page) == IF page.Next # Nil THEN page.Next ELSE ""

\* (mutant) buildFeed without the test that skips tag indices
buildFeedEveryIndex(page, slice) ==
    {File("FeedBuilder", FeedPath(page.Path),
          Marshal(buildFeedPage(page, slice), FeedNext(page)))}

\* buildFeed: the files it creates (it returns nil on both paths)
buildFeed(page, slice) ==
    IF page.Content.IndexID # "" THEN {}
    ELSE {File("FeedBuilder", FeedPath(page.Path),
               Marshal(buildFeedPage(page, slice), FeedNext(page)))}

\* The files the callbacks write for a list of ordered index pages
IndexPageFiles(pages, slice) ==
    UNION {{TemplateIndexPage(pages[k], slice)} \cup buildFeed(pages[k], slice) :
           k \in 1..Len(pages)}

(***************************************************************************)
(* State                                                                    *)
(***************************************************************************)
VARIABLES
    input,          \* pages still to arrive at the Orderer, in arrival order
    pageSize,       \* Indexer.PageSize
    orderedPages,   \* the Orderer's vector (orderedPages in NewOrderer)
    Indices,        \* Indexer.Indices: index id -> Index
    indexPages,     \* index id -> the pages Index.Paginate returned for it
    phase,          \* where the ordering run stands
    actors,         \* the list of actors Multi.Run is called on
    proc,           \* goroutine -> [pc, held, i]: the workers of every actor
    finder,         \* Output actor -> the FileFinder closure's dirs/dir/entries
    closed,         \* the channels that have been closed
    cancelled,      \* the context Multi.Run derives has been cancelled
    actorRun,       \* actor -> [state, ret]: the actor's Run and its result
    baseCount,      \* actor -> results Base.Run has received from its workers
    multi,          \* Multi.Run: [pc, got, ret]
    faults,         \* callback failures so far
    panicked,       \* the process has panicked (send on a closed channel)
    files,          \* the output directory: the files created, by actor
    buffer,         \* the bytes a function under test is applied to
    result,         \* what the applications of the function returned, in order
    emitted,        \* channel -> the elements received from it so far, in order
    doneCalls       \* calls of an end-of-input callback (NewInput's done) so far

unitVars == <<buffer, result>>

histVars == <<emitted, doneCalls>>

\* What a step that only applies a function to the buffer leaves alone
siteVars == <<input, pageSize, orderedPages, Indices, indexPages, phase, actors,
              proc, finder, closed, cancelled, actorRun, baseCount, multi,
              faults, panicked, files, histVars>>

pipeVars == <<actors, proc, finder, closed, cancelled, actorRun, baseCount, multi,
              faults, panicked, unitVars>>

vars == <<input, pageSize, orderedPages, Indices, indexPages, phase, actors,
          proc, finder, closed, cancelled, actorRun, baseCount, multi, faults,
          panicked, files, buffer, result, emitted, doneCalls>>

(***************************************************************************)
(* The actor graph Pipeline.Run wires and hands to Multi.Run.               *)
(***************************************************************************)
MaxWorkers == 2      \* worker goroutines modelled per actor
MaxFaults == 1       \* callback failures in one run
MaxThemeFiles == 4   \* files under theme/static when the theme branch runs alone

PipelinePageSize == 10

Actors ==
    <<"FileFinder::ThemeAssets", "FileCopier::ThemeAssets", "FileFinder::PostSources", "FileReader",
      "PostParser", "Orderer", "Indexer", "Templater[Post]", "MultiChan",
      "Templater[IndexPage]", "FeedBuilder">>

ActorSet == {Actors[k] : k \in 1..Len(Actors)}

\* An Input actor by itself, in place of the theme copier: NewInput with
\* MaxWorkers workers, a callback that does nothing and an end-of-input
\* callback (done) that returns nil
InputWithDone == "Input"

\* The shape of each actor: NewOutput, NewInput, NewMap, NewOrderer, or an
\* actor with a Run of its own
Kind(a) ==
    CASE a \in {"FileFinder::ThemeAssets", "FileFinder::PostSources"} -> "output"
      [] a \in {"FileCopier::ThemeAssets", "Templater[Post]", "Templater[IndexPage]",
                "FeedBuilder", InputWithDone} -> "input"
      [] a \in {"FileReader", "PostParser"} -> "map"
      [] a = "Orderer" -> "orderer"
      [] a = "Indexer" -> "indexer"
      [] a = "MultiChan" -> "multichan"

\* The concurrency argument each constructor is called with
Concurrency(a) ==
    CASE a \in {"FileFinder::ThemeAssets", "FileFinder::PostSources", "Orderer"} -> 1
      [] a \in {"FileCopier::ThemeAssets", "FileReader"} -> 4
      [] a \in {"PostParser", "Templater[Post]", "Templater[IndexPage]",
                "FeedBuilder"} -> 8
      [] a = InputWithDone -> MaxWorkers
      [] OTHER -> 1

\* Worker goroutines modelled for an actor
Conc(a) == Min(Concurrency(a), MaxWorkers)

\* The channel an actor receives from
InChan(a) ==
    CASE a \in {"FileCopier::ThemeAssets", InputWithDone} -> "themeFiles"
      [] a = "FileReader" -> "sources"
      [] a = "PostParser" -> "files"
      [] a = "Orderer" -> "pages"
      [] a = "Indexer" -> "slices"
      [] a = "Templater[Post]" -> "ordered"
      [] a = "MultiChan" -> "indexPages"
      [] a = "Templater[IndexPage]" -> "fan0"
      [] a = "FeedBuilder" -> "fan1"
      [] OTHER -> Nil

\* The channels an actor sends on
OutChans(a) ==
    CASE a = "FileFinder::ThemeAssets" -> <<"themeFiles">>
      [] a = "FileFinder::PostSources" -> <<"sources">>
      [] a = "FileReader" -> <<"files">>
      [] a = "PostParser" -> <<"pages">>
      [] a = "Orderer" -> <<"slices", "ordered">>
      [] a = "Indexer" -> <<"indexPages">>
      [] a = "MultiChan" -> <<"fan0", "fan1">>
      [] OTHER -> <<>>

Range(f) == {f[x] : x \in DOMAIN f}

Channels == UNION {Range(OutChans(a)) : a \in ActorSet}

\* (mutant) Orderer.Run without its deferred close of the slice channel
DeferredClosesSliceLeftOpen(a) == Range(OutChans(a)) \ {"slices"}

\* The channels the deferred closes of an actor's Run close
DeferredCloses(a) == Range(OutChans(a))

\* The actor that sends on the channel actor a receives from
Upstream(a) == CHOOSE u \in ActorSet : InChan(a) \in Range(OutChans(u))

\* The goroutines of a list of actors: the workers of every actor (an actor
\* with a Run of its own has one)
ProcsOf(list) == UNION {{<<a, w>> : w \in 1..Conc(a)} : a \in Range(list)}

(***************************************************************************)
(* Errors.  runIndividually wraps a callback's error with the actor name   *)
(* (fmt.Errorf("%s: %w")); Indexer.Run and MultiChan.Run return ctx.Err()   *)
(* as it is.                                                                *)
(***************************************************************************)
Canceled == "context canceled"
Failed == "failed"

Wrap(a, err) == a \o ": " \o err

(***************************************************************************)
(* FileFinder over a directory tree: fs maps a directory to its entries.    *)
(***************************************************************************)
FileName(prefix, i) == prefix \o Itoa(i)

\* A flat directory of n files
FlatFS(prefix, suffix, n) ==
    ("." :> [i \in 1..n |-> [Name |-> FileName(prefix, i) \o suffix,
                              IsDir |-> FALSE]])

FinderJoin(dir, name) == IF dir = "." THEN name ELSE dir \o "/" \o name

\* The state FileFinder's closure starts with; reads records the directories
\* fs.ReadDir has been called on
NewFinder(fs, ext) ==
    [fs |-> fs, ext |-> ext, dirs |-> <<".">>, dir |-> "", entries |-> <<>>,
     reads |-> <<>>]

\* fs.ReadDir(root, dir) in closure state st
ReadDir(st) ==
    [st EXCEPT !.entries = IF st.dir \in DOMAIN st.fs
                           THEN st.fs[st.dir] ELSE <<>>,
               !.reads = Append(@, st.dir)]

\* (mutant) the closure pushing a directory it meets on the front of dirs
RECURSIVE FinderCallDepthFirst(_, _, _)
FinderCallDepthFirst(st, canc, readFails) ==
    IF st.entries # <<>>
    THEN LET entry == Head(st.entries)
             rest == [st EXCEPT !.entries = Tail(st.entries)]
             path == FinderJoin(st.dir, entry.Name)
         IN  IF entry.IsDir
             THEN FinderCallDepthFirst([rest EXCEPT !.dirs = <<path>> \o @],
                                       canc, readFails)
             ELSE IF HasSuffix(entry.Name, st.ext)
             THEN [st |-> rest, kind |-> "value", value |-> path]
             ELSE FinderCallDepthFirst(rest, canc, readFails)
    ELSE IF Len(st.dirs) < 1
    THEN [st |-> st, kind |-> "stop", value |-> ""]
    ELSE LET popped == [st EXCEPT !.dir = Head(st.dirs),
                                  !.dirs = Tail(st.dirs)]
         IN  IF canc
             THEN [st |-> popped, kind |-> "error", value |-> Canceled]
             ELSE IF readFails
             THEN [st |-> popped, kind |-> "error", value |-> Failed]
             ELSE FinderCallDepthFirst(ReadDir(popped), canc, FALSE)

\* (mutant) the closure reading the next directory without a look at the
\* context
RECURSIVE FinderCallWithoutCtxErr(_, _, _)
FinderCallWithoutCtxErr(st, canc, readFails) ==
    IF st.entries # <<>>
    THEN LET entry == Head(st.entries)
             rest == [st EXCEPT !.entries = Tail(st.entries)]
             path == FinderJoin(st.dir, entry.Name)
         IN  IF entry.IsDir
             THEN FinderCallWithoutCtxErr([rest EXCEPT !.dirs = Append(@, path)],
                                          canc, readFails)
             ELSE IF HasSuffix(entry.Name, st.ext)
             THEN [st |-> rest, kind |-> "value", value |-> path]
             ELSE FinderCallWithoutCtxErr(rest, canc, readFails)
    ELSE IF Len(st.dirs) < 1
    THEN [st |-> st, kind |-> "stop", value |-> ""]
    ELSE LET popped == [st EXCEPT !.dir = Head(st.dirs),
                                  !.dirs = Tail(st.dirs)]
         IN  IF readFails
             THEN [st |-> popped, kind |-> "error", value |-> Failed]
             ELSE FinderCallWithoutCtxErr(ReadDir(popped), canc, FALSE)

\* One call of the closure FileFinder returns.  canc: the context is
\* cancelled; readFails: fs.ReadDir fails on the directory read by this call
RECURSIVE FinderCall(_, _, _)
FinderCall(st, canc, readFails) ==
    IF st.entries # <<>>
    THEN LET entry == Head(st.entries)
             rest == [st EXCEPT !.entries = Tail(st.entries)]
             path == FinderJoin(st.dir, entry.Name)
         IN  IF entry.IsDir
             THEN FinderCall([rest EXCEPT !.dirs = Append(@, path)],
                             canc, readFails)
             ELSE IF HasSuffix(entry.Name, st.ext)
             THEN [st |-> rest, kind |-> "value", value |-> path]
             ELSE FinderCall(rest, canc, readFails)
    ELSE IF Len(st.dirs) < 1
    THEN [st |-> st, kind |-> "stop", value |-> ""]
    ELSE LET popped == [st EXCEPT !.dir = Head(st.dirs),
                                  !.dirs = Tail(st.dirs)]
         IN  IF canc
             THEN [st |-> popped, kind |-> "error", value |-> Canceled]
             ELSE IF readFails
             THEN [st |-> popped, kind |-> "error", value |-> Failed]
             ELSE FinderCall(ReadDir(popped), canc, FALSE)

\* Nothing has been received yet from the Orderer's two output channels, the
\* Indexer's output channel and the fan-out's outputs
NoneEmitted ==
    [c \in {"slices", "ordered", "indexPages", "fan0", "fan1"} |-> <<>>]

(***************************************************************************)
(* SpecOrder: the Orderer's callbacks and the Indexer's ingest and          *)
(* pagination, applied in program order to a bounded list of posts.         *)
(***************************************************************************)
TagTexts == {"go", "ops"}
TagLists == {<<>>, <<"go", "ops">>}

SourcePath(i) == "p" \o Itoa(i) \o markdownSuffix

PostInputs ==
    UNION {
        {[i \in 1..n |->
            PostPageConvert(NewPost(SourcePath(i), dates[i], tags[i]))] :
            dates \in [1..n -> 1..MaxOrder], tags \in [1..n -> TagLists]} :
        n \in 0..MaxPosts}

InitOrder ==
    /\ input \in PostInputs
    /\ pageSize \in 1..MaxPageSize
    /\ orderedPages = <<>>
    /\ Indices = <<>>
    /\ indexPages = <<>>
    /\ phase = "ingest"
    /\ actors = <<>>
    /\ proc = <<>>
    /\ finder = <<>>
    /\ closed = {}
    /\ cancelled = FALSE
    /\ actorRun = <<>>
    /\ baseCount = <<>>
    /\ multi = [pc |-> "idle", got |-> <<>>, ret |-> Nil]
    /\ faults = 0
    /\ panicked = FALSE
    /\ files = {}
    /\ buffer = ""
    /\ result = <<>>
    /\ emitted = NoneEmitted
    /\ doneCalls = 0

\* The Orderer's per-element callback
OrdererAppend ==
    /\ phase = "ingest"
    /\ input # <<>>
    /\ orderedPages' = Append(orderedPages, NewOrderedPage(Head(input)))
    /\ input' = Tail(input)
    /\ UNCHANGED <<pageSize, Indices, indexPages, phase, files, histVars>>
    /\ UNCHANGED pipeVars

\* The Orderer's end-of-input callback: the pages are ordered and sent, and
\* the post Templater writes each of them
OrdererOrder ==
    /\ phase = "ingest"
    /\ input = <<>>
    /\ orderedPages' = OrderPages(orderedPages)
    /\ files' = files \cup {TemplatePost(orderedPages'[i]) :
                                i \in 1..Len(orderedPages)}
    /\ phase' = "ordered"
    /\ emitted' = [emitted EXCEPT
                        !["slices"] = Append(@, orderedPages'),
                        !["ordered"] = @ \o [i \in 1..Len(orderedPages) |-> i]]
    /\ doneCalls' = doneCalls + 1
    /\ UNCHANGED <<input, pageSize, Indices, indexPages>>
    /\ UNCHANGED pipeVars

\* The Indexer receives the slice
IndexerIngest ==
    /\ phase = "ordered"
    /\ Indices' = IndexSlice(Indices, orderedPages, 1)
    /\ phase' = "indexed"
    /\ UNCHANGED <<input, pageSize, orderedPages, indexPages, files, histVars>>
    /\ UNCHANGED pipeVars

\* (mutant) Index.Paginate linking the posts of the index to one another, as
\* OrderPages links the pages it is given, through the pointers it holds
PaginateIndexRelinksPosts(id) ==
    /\ phase = "indexed"
    /\ id \in DOMAIN Indices
    /\ id \notin DOMAIN indexPages
    /\ LET r == Paginate(Indices[id], pageSize, orderedPages)
           posts == r.idx.Posts
           linked == SetNextLinks(SetPrevLinks(
                        [k \in DOMAIN posts |-> orderedPages[posts[k]]]))
       IN  /\ Indices' = [Indices EXCEPT ![id] = r.idx]
           /\ indexPages' = indexPages @@ (id :> r.pages)
           /\ files' = files \cup IndexPageFiles(r.pages, orderedPages)
           /\ emitted' = [emitted EXCEPT !["indexPages"] = @ \o r.pages]
           /\ orderedPages' =
                [i \in DOMAIN orderedPages |->
                    IF \E k \in DOMAIN posts : posts[k] = i
                    THEN linked[CHOOSE k \in DOMAIN posts : posts[k] = i]
                    ELSE orderedPages[i]]
    /\ UNCHANGED <<input, pageSize, phase, doneCalls>>
    /\ UNCHANGED pipeVars

\* Indexer.paginateIndex for one index, in the arbitrary order of the map;
\* its pages are sent on and the index Templater and the FeedBuilder write
PaginateIndex(id) ==
    /\ phase = "indexed"
    /\ id \in DOMAIN Indices
    /\ id \notin DOMAIN indexPages
    /\ LET r == Paginate(Indices[id], pageSize, orderedPages)
       IN  /\ Indices' = [Indices EXCEPT ![id] = r.idx]
           /\ indexPages' = indexPages @@ (id :> r.pages)
           /\ files' = files \cup IndexPageFiles(r.pages, orderedPages)
           /\ emitted' = [emitted EXCEPT !["indexPages"] = @ \o r.pages]
    /\ UNCHANGED <<input, pageSize, orderedPages, phase, doneCalls>>
    /\ UNCHANGED pipeVars

NextOrder ==
    \/ OrdererAppend
    \/ OrdererOrder
    \/ IndexerIngest
    \/ \E id \in {GlobalID} \cup TagTexts : PaginateIndex(id)

SpecOrder == InitOrder /\ [][NextOrder]_vars

(***************************************************************************)
(* SpecTags: the same functions applied to posts whose tag lists are        *)
(* degenerate as well: a tag repeated in one list, a tag with empty text, a *)
(* tag named like the directory of the post pages, a tag with a byte that   *)
(* is special in a URL, and a post file named index.md.                     *)
(* (Link.UnmarshalYAML lowercases a tag's text and accepts any string;      *)
(* FileFinder yields every file with the .md extension.)                    *)
(***************************************************************************)
WideTagTexts == {"go", "posts", "c#"}
WideTagLists == {<<>>, <<"go">>, <<"go", "go">>, <<"">>, <<"posts">>, <<"c#">>}

SitePath(i) == IF i = 1 THEN "index" \o markdownSuffix ELSE SourcePath(i)

TaggedInputs ==
    UNION {
        {[i \in 1..n |-> PostPageConvert(NewPost(SitePath(i), i, tags[i]))] :
            tags \in [1..n -> WideTagLists]} :
        n \in 0..MaxPosts}

InitTags ==
    /\ input \in TaggedInputs
    /\ pageSize \in 1..MaxPageSize
    /\ orderedPages = <<>>
    /\ Indices = <<>>
    /\ indexPages = <<>>
    /\ phase = "ingest"
    /\ actors = <<>>
    /\ proc = <<>>
    /\ finder = <<>>
    /\ closed = {}
    /\ cancelled = FALSE
    /\ actorRun = <<>>
    /\ baseCount = <<>>
    /\ multi = [pc |-> "idle", got |-> <<>>, ret |-> Nil]
    /\ faults = 0
    /\ panicked = FALSE
    /\ files = {}
    /\ buffer = ""
    /\ result = <<>>
    /\ emitted = NoneEmitted
    /\ doneCalls = 0

NextTags ==
    \/ OrdererAppend
    \/ OrdererOrder
    \/ IndexerIngest
    \/ \E id \in {GlobalID} \cup WideTagTexts : PaginateIndex(id)

SpecTags == InitTags /\ [][NextTags]_vars

(***************************************************************************)
(* Post files and ParsePost.                                                *)
(***************************************************************************)
startFenceString == "---\n"
endFenceString == "\n---\n"
startFence == startFenceString
endFence == endFenceString

ErrFrontmatterMissingStartFence == "scanning frontmatter: missing start fence"
ErrFrontmatterMissingEndFence == "scanning frontmatter: missing end fence"

\* The frontmatter of the post files of the site: date and tags by file
SiteFileNumbers == 1..(2 * MaxFiles)

FileNumber(path) == CHOOSE i \in SiteFileNumbers : SourcePath(i) = path

FileDate(path) == ((FileNumber(path) + 1) \div 2)

FileTags(path) == IF FileNumber(path) % 2 = 1 THEN <<"go">> ELSE <<>>

\* The YAML text of the frontmatter of the post file at path
YamlOf(path) == "Title: " \o path

\* The bytes of the post file at path
FileData(path) == startFence \o YamlOf(path) \o endFence \o BodyOf(path)

ZeroFrontmatter == [Date |-> 0, Tags |-> <<>>, Author |-> ""]

ErrYaml == "yaml: unmarshal errors"

\* yaml.Unmarshal into a Frontmatter: the frontmatter of a file of the site,
\* nothing for an empty document, an error for any other text
Unmarshal(text) ==
    IF \E i \in SiteFileNumbers : text = YamlOf(SourcePath(i))
    THEN LET path == SourcePath(CHOOSE i \in SiteFileNumbers :
                                    text = YamlOf(SourcePath(i)))
         IN  [err |-> Nil,
              fm  |-> [Date |-> FileDate(path), Tags |-> FileTags(path),
                       Author |-> AuthorOf(path)]]
    ELSE IF text = "" THEN [err |-> Nil, fm |-> ZeroFrontmatter]
    ELSE [err |-> ErrYaml, fm |-> ZeroFrontmatter]

\* ParsePost's ERROR label: fmt.Errorf wraps the error with the source path
\* (the message is written here without the quotes around the path)
ParseError(sourcePath, err) ==
    [p |-> Nil, err |-> "parsing post " \o sourcePath \o ": " \o err,
     panic |-> FALSE, yaml |-> Nil]

\* A slice expression data[low:high] with low > high panics
SliceBoundsOutOfRange == [p |-> Nil, err |-> Nil, panic |-> TRUE, yaml |-> Nil]

\* ParsePost from yaml.Unmarshal on, the end fence found at idx
ParseFrontmatter(data, sourcePath, idx) ==
    IF Len(startFence) > idx
    THEN SliceBoundsOutOfRange
    ELSE LET text == SubSeq(data, Len(startFence) + 1, idx)
             y == Unmarshal(text)
         IN  IF y.err # Nil
             THEN [ParseError(sourcePath, y.err) EXCEPT !.yaml = text]
             ELSE [p |-> [Path |-> sourcePath,
                          Date |-> y.fm.Date,
                          Tags |-> y.fm.Tags,
                          Author |-> y.fm.Author,
                          Body |-> SubSeq(data, idx + Len(endFence) + 1,
                                          Len(data))],
                   err |-> Nil, panic |-> FALSE, yaml |-> text]

\* (mutant) ParsePost looking for the end fence before the start fence
ParsePostEndFenceFirst(data, sourcePath) ==
    IF Index(data, endFence) < 1
    THEN ParseError(sourcePath, ErrFrontmatterMissingEndFence)
    ELSE IF ~HasPrefix(data, startFence)
    THEN ParseError(sourcePath, ErrFrontmatterMissingStartFence)
    ELSE ParseFrontmatter(data, sourcePath, Index(data, endFence))

\* ParsePost: the post, the error or the panic; yaml is the byte range
\* data[len(startFence):idx] handed to yaml.Unmarshal
ParsePost(data, sourcePath) ==
    IF ~HasPrefix(data, startFence)
    THEN ParseError(sourcePath, ErrFrontmatterMissingStartFence)
    ELSE IF Index(data, endFence) < 1
    THEN ParseError(sourcePath, ErrFrontmatterMissingEndFence)
    ELSE ParseFrontmatter(data, sourcePath, Index(data, endFence))

(***************************************************************************)
(* SpecSnippet: snippet applied to a bounded set of bodies, and applied     *)
(* again to what it returned.  A body is a run of at most MaxTokens pieces: *)
(* a letter, the two markers snippet looks for, and a text longer than the  *)
(* cap of the paragraph rule.                                               *)
(***************************************************************************)
MaxTokens == 3

RECURSIVE Repeat(_, _)
Repeat(s, n) ==
    IF n = 0 THEN ""
    ELSE IF n % 2 = 1 THEN s \o Repeat(s \o s, n \div 2)
    ELSE Repeat(s \o s, n \div 2)

LongText == Repeat("x", SnippetMax + 6)

BodyTokens == {"a", MoreMarker, ParagraphEnd, LongText}

RECURSIVE Texts(_, _)
Texts(tokens, n) ==
    IF n = 0 THEN {""}
    ELSE Texts(tokens, n - 1) \cup
         {t \o tok : t \in Texts(tokens, n - 1), tok \in tokens}

Bodies == Texts(BodyTokens, MaxTokens)

\* The state of a run that only applies a function to the buffer
UnitInit ==
    /\ input = <<>>
    /\ pageSize = 1
    /\ orderedPages = <<>>
    /\ Indices = <<>>
    /\ indexPages = <<>>
    /\ phase = "unit"
    /\ actors = <<>>
    /\ proc = <<>>
    /\ finder = <<>>
    /\ closed = {}
    /\ cancelled = FALSE
    /\ actorRun = <<>>
    /\ baseCount = <<>>
    /\ multi = [pc |-> "idle", got |-> <<>>, ret |-> Nil]
    /\ faults = 0
    /\ panicked = FALSE
    /\ files = {}
    /\ result = <<>>
    /\ emitted = NoneEmitted
    /\ doneCalls = 0

InitSnippet ==
    /\ buffer \in Bodies
    /\ UnitInit

\* PostPageConverter.Convert's call: snippet(content.Content.Body)
ApplySnippet ==
    /\ phase = "unit"
    /\ result = <<>>
    /\ result' = <<snippet(buffer)>>
    /\ UNCHANGED <<siteVars, buffer>>

\* snippet applied to the snippet it returned
ReapplySnippet ==
    /\ phase = "unit"
    /\ Len(result) = 1
    /\ result' = Append(result, snippet(result[1]))
    /\ UNCHANGED <<siteVars, buffer>>

NextSnippet == ApplySnippet \/ ReapplySnippet

SpecSnippet == InitSnippet /\ [][NextSnippet]_vars

(***************************************************************************)
(* SpecParse: ParsePost applied to a bounded set of buffers, runs of at     *)
(* most MaxTokens pieces: the two fences, a letter, a frontmatter text.     *)
(***************************************************************************)
FenceTokens == {startFenceString, endFenceString, "a", YamlOf(SourcePath(1))}

Buffers == Texts(FenceTokens, MaxTokens)

InitParse ==
    /\ buffer \in Buffers
    /\ UnitInit

\* NewPostParser's callback: ParsePost(file.Data, file.Path)
ApplyParsePost ==
    /\ phase = "unit"
    /\ result = <<>>
    /\ \E path \in {SourcePath(1), SourcePath(2)} :
          result' = <<[sourcePath |-> path, ret |-> ParsePost(buffer, path)]>>
    /\ UNCHANGED <<siteVars, buffer>>

NextParse == ApplyParsePost

SpecParse == InitParse /\ [][NextParse]_vars

(***************************************************************************)
(* SpecFinder: the closure FileFinder returns, called again and again on a *)
(* bounded set of directory trees; the context may be cancelled and a       *)
(* directory read may fail between two calls.  A tree has files and         *)
(* directories at its root (one directory named like a markdown file), the  *)
(* same entries in every directory of the root and the same in every        *)
(* directory below those.                                                   *)
(***************************************************************************)
MaxEntries == 3      \* entries of the root directory
MaxCalls == 7        \* calls of the closure in one run

FileEntry(name) == [Name |-> name, IsDir |-> FALSE]
DirEntry(name) == [Name |-> name, IsDir |-> TRUE]

\* The lists of at most n entries out of a set, no entry twice
EntryLists(S, n) ==
    {l \in UNION {[1..k -> S] : k \in 0..n} :
        \A i \in DOMAIN l : \A j \in DOMAIN l : i # j => l[i] # l[j]}

RootLists ==
    EntryLists({FileEntry("a.md"), FileEntry("b.txt"), DirEntry("d"),
                DirEntry("e.md")}, MaxEntries)

SubLists ==
    EntryLists({FileEntry("a.md"), FileEntry("b.txt"), DirEntry("d")}, 2)

LeafLists == {<<>>, <<FileEntry("a.md")>>}

DirNames(l) == {l[i].Name : i \in {j \in DOMAIN l : l[j].IsDir}}

\* The tree with the entries root at the root, sub in each directory of the
\* root and leaf in each directory of those
TreeOf(root, sub, leaf) ==
    LET top == DirNames(root)
        second == {FinderJoin(t, n) : t \in top, n \in DirNames(sub)}
    IN  [p \in {"."} \cup top \cup second |->
            IF p = "." THEN root ELSE IF p \in top THEN sub ELSE leaf]

Trees ==
    {TreeOf(root, sub, leaf) :
        root \in RootLists, sub \in SubLists, leaf \in LeafLists}

TheFinder == "FileFinder::PostSources"

InitFinder ==
    /\ input = <<>>
    /\ pageSize = 1
    /\ orderedPages = <<>>
    /\ Indices = <<>>
    /\ indexPages = <<>>
    /\ phase = "finder"
    /\ actors = <<>>
    /\ proc = <<>>
    /\ \E fs \in Trees : \E ext \in {markdownSuffix, ""} :
            finder = (TheFinder :> NewFinder(fs, ext))
    /\ closed = {}
    /\ cancelled = FALSE
    /\ actorRun = <<>>
    /\ baseCount = <<>>
    /\ multi = [pc |-> "idle", got |-> <<>>, ret |-> Nil]
    /\ faults = 0
    /\ panicked = FALSE
    /\ files = {}
    /\ buffer = ""
    /\ result = <<>>
    /\ emitted = NoneEmitted
    /\ doneCalls = 0

\* What a step of the closure leaves alone
finderFrame ==
    <<input, pageSize, orderedPages, Indices, indexPages, phase, actors, proc,
      closed, actorRun, baseCount, multi, panicked, files, buffer, histVars>>

\* One call of the closure
FinderStep ==
    LET r == FinderCall(finder[TheFinder], cancelled, FALSE)
    IN  /\ phase = "finder"
        /\ Len(result) < MaxCalls
        /\ finder' = [finder EXCEPT ![TheFinder] = r.st]
        /\ result' = Append(result, [kind |-> r.kind, value |-> r.value])
        /\ UNCHANGED <<finderFrame, cancelled, faults>>

\* One call of the closure in which fs.ReadDir fails
FinderReadFails ==
    LET r == FinderCall(finder[TheFinder], cancelled, TRUE)
    IN  /\ phase = "finder"
        /\ Len(result) < MaxCalls
        /\ faults < MaxFaults
        /\ r.kind = "error"
        /\ r.value = Failed
        /\ finder' = [finder EXCEPT ![TheFinder] = r.st]
        /\ result' = Append(result, [kind |-> r.kind, value |-> r.value])
        /\ faults' = faults + 1
        /\ UNCHANGED <<finderFrame, cancelled>>

\* The context is cancelled between two calls
FinderCancel ==
    /\ phase = "finder"
    /\ ~cancelled
    /\ cancelled' = TRUE
    /\ UNCHANGED <<finderFrame, finder, result, faults>>

NextFinder == FinderStep \/ FinderReadFails \/ FinderCancel

SpecFinder == InitFinder /\ [][NextFinder]_vars

(***************************************************************************)
(* SpecLinks: markdown.Convert on one link of a post body, for a bounded    *)
(* set of destinations: relative, rooted at the site ("/.."), absolute on   *)
(* the site's host or on another, with or without a query and a fragment.   *)
(* (Footnote links are left out.)                                           *)
(***************************************************************************)
MaxDepth == 1        \* directories in the path of a destination

\* patchURL
patchURL(base, current, u) ==
    IF u.Root = "" /\ Len(u.Path) > 0 /\ SubSeq(u.Path, 1, 1) = "/"
    THEN JoinPath(base, <<SubSeq(u.Path, 2, Len(u.Path))>>)
    ELSE ResolveReference(current, u)

\* visitor.Visit on a link: the destination is replaced by its resolved form
VisitLink(current, destination) ==
    IF Len(destination) > 0
    THEN URLString(patchURL(BaseURL, current, Parse(destination)))
    ELSE destination

isSite(baseURL, target) ==
    HasPrefix(URLString(ResolveReference(baseURL, Parse(target))),
              URLString(baseURL))

isMD(target) == HasSuffix(target, markdownSuffix)

\* The RenderNodeHook on a link that is no footnote: the destination the
\* renderer writes as href
RenderLink(destination) ==
    IF isSite(BaseURL, destination) /\ isMD(destination)
    THEN SubSeq(destination, 1, Len(destination) - Len(markdownSuffix))
            \o htmlSuffix
    ELSE destination

\* markdown.Convert on a link: the walk of the visitor, then the rendering
ConvertLink(current, destination) == RenderLink(VisitLink(current, destination))

Directory == "docs/"

Destinations ==
    {prefix \o Repeat(Directory, depth) \o name \o query \o fragment :
        prefix \in {"", "/", "http://site/", "http://other/"},
        depth \in 0..MaxDepth,
        name \in {"", "a", "a.md", "b.html"},
        query \in {"", "?q=1", "?f=a.md"},
        fragment \in {"", "#s"}}

\* The URLs of the post pages, as PageConverter.Convert builds them
PostPageURLs ==
    {ResolveReference(BaseURL, Parse(PathJoin("posts", convertPath(SourcePath(i))))) :
        i \in 1..MaxFiles}

InitLinks ==
    /\ buffer \in Destinations
    /\ UnitInit

\* PostPageConverter.Convert's call of markdown.Convert with the page's URL
ApplyConvertLink ==
    /\ phase = "unit"
    /\ result = <<>>
    /\ \E current \in PostPageURLs :
            result' = <<[current |-> current,
                         href |-> ConvertLink(current, buffer)]>>
    /\ UNCHANGED <<siteVars, buffer>>

NextLinks == ApplyConvertLink

SpecLinks == InitLinks /\ [][NextLinks]_vars

(***************************************************************************)
(* The pipeline: every goroutine Pipeline.Run starts through Multi.Run.     *)
(***************************************************************************)
Idle(pc) == [pc |-> pc, held |-> Nil, i |-> 0]

StartPc(a) == IF Kind(a) = "output" THEN "call" ELSE "recv"

\* The state right after Multi.Run has started the goroutines of list, for a
\* site with the directory tree posts under posts/ and nTheme files under
\* theme/static; none: the record of the elements received, still empty
MultiStartTracking(list, posts, nTheme, none) ==
    /\ actors = list
    /\ proc = [p \in ProcsOf(list) |-> Idle(StartPc(p[1]))]
    /\ finder = [a \in {b \in Range(list) : Kind(b) = "output"} |->
                    IF a = "FileFinder::ThemeAssets"
                    THEN NewFinder(FlatFS("t", ".css", nTheme), "")
                    ELSE NewFinder(posts, markdownSuffix)]
    /\ closed = {}
    /\ cancelled = FALSE
    /\ actorRun = [a \in Range(list) |-> [state |-> "running", ret |-> Nil]]
    /\ baseCount = [a \in Range(list) |-> 0]
    /\ multi = [pc |-> "recv", got |-> <<>>, ret |-> Nil]
    /\ faults = 0
    /\ panicked = FALSE
    /\ files = {}
    /\ buffer = ""
    /\ result = <<>>
    /\ emitted = none
    /\ doneCalls = 0

\* The same, with the record kept for the channels of NoneEmitted
MultiStartOn(list, posts, nTheme) ==
    MultiStartTracking(list, posts, nTheme, NoneEmitted)

\* The same for a site whose posts are the files p1.md .. pN.md
MultiStart(list, nPosts, nTheme) ==
    MultiStartOn(list, FlatFS("p", markdownSuffix, nPosts), nTheme)

InitPipeline ==
    /\ input = <<>>
    /\ phase = "pipeline"
    /\ pageSize = PipelinePageSize
    /\ orderedPages = <<>>
    /\ Indices = <<>>
    /\ indexPages = <<>>
    /\ \E nPosts \in 0..MaxFiles :
            \E nTheme \in 0..(MaxFiles - nPosts) :
                MultiStart(Actors, nPosts, nTheme)

\* The files FileReader reads: path and bytes
SiteFiles ==
    [path \in {SourcePath(i) : i \in SiteFileNumbers} |->
        [Path |-> path, Data |-> FileData(path)]]

\* NewPostParser's callback on each of them: ParsePost, then Convert
ParsedPages ==
    [path \in DOMAIN SiteFiles |->
        PostPageConvert(
            ParsePost(SiteFiles[path].Data, SiteFiles[path].Path).p)]

\* The value a Map actor's callback returns for an element: FileReader
\* returns the file's path and bytes, PostParser the page of the parsed post
MapValue(a, elt) ==
    IF a = "FileReader" THEN SiteFiles[elt] ELSE ParsedPages[elt.Path]

\* The callbacks that read through a contextReader (FileCopier, FileReader)
\* fail with the context's error once it is cancelled
ChecksContext(a) == a \in {"FileCopier::ThemeAssets", "FileReader"}

(***************************************************************************)
(* Channel sends.  A goroutine blocked in a send is paired with a receiver  *)
(* by the receiver's action.                                                *)
(***************************************************************************)
\* The channel a goroutine is sending on, Nil when it is not in a send
SendingOn(p) ==
    LET a == p[1]
        st == proc[p]
    IN  CASE st.pc = "send" /\ Kind(a) \in {"output", "map"} -> OutChans(a)[1]
          [] st.pc = "sendSlice" -> "slices"
          [] st.pc = "sendPage" -> "ordered"
          [] st.pc = "paginate" /\ st.i <= Len(st.held) -> "indexPages"
          [] st.pc = "send" /\ Kind(a) = "multichan" -> OutChans(a)[st.i]
          [] OTHER -> Nil

\* The workers of an actor run the same code: of the workers of one actor in
\* the same local state, the lowest-numbered takes the next step
Lowest(p) ==
    \A v \in 1..(p[2] - 1) :
        LET q == <<p[1], v>>
        IN  ~(/\ proc[q].pc = proc[p].pc
              /\ proc[q].i = proc[p].i
              /\ proc[q].held = proc[p].held)

\* (mutant) the Orderer's loop over the pages running from the last to the
\* first
SentItemLastFirst(p) ==
    LET st == proc[p]
    IN  CASE st.pc = "sendSlice" -> orderedPages
          [] st.pc = "sendPage" -> Len(orderedPages) + 1 - st.i
          [] st.pc = "paginate" -> st.held[st.i]
          [] OTHER -> st.held

\* (mutant) paginateIndex's loop over the pages running from the last to the
\* first
SentItemLastPageFirst(p) ==
    LET st == proc[p]
    IN  CASE st.pc = "sendSlice" -> orderedPages
          [] st.pc = "sendPage" -> st.i
          [] st.pc = "paginate" -> st.held[Len(st.held) + 1 - st.i]
          [] OTHER -> st.held

\* The element a sender hands over
SentItem(p) ==
    LET st == proc[p]
    IN  CASE st.pc = "sendSlice" -> orderedPages
          [] st.pc = "sendPage" -> st.i
          [] st.pc = "paginate" -> st.held[st.i]
          [] OTHER -> st.held

\* (mutant) MultiChan.Run's loop over the outputs ending after the first
AfterSendFirstOutputOnly(p) ==
    LET a == p[1]
        st == proc[p]
    IN  CASE st.pc = "sendSlice" ->
                IF Len(orderedPages) = 0 THEN Idle("done")
                ELSE [pc |-> "sendPage", held |-> Nil, i |-> 1]
          [] st.pc = "sendPage" ->
                IF st.i = Len(orderedPages) THEN Idle("done")
                ELSE [st EXCEPT !.i = @ + 1]
          [] st.pc = "paginate" -> [st EXCEPT !.i = @ + 1]
          [] st.pc = "send" /\ Kind(a) = "multichan" -> Idle("recv")
          [] st.pc = "send" /\ Kind(a) = "output" -> Idle("call")
          [] OTHER -> Idle("recv")

\* The sender once its send has completed
AfterSend(p) ==
    LET a == p[1]
        st == proc[p]
    IN  CASE st.pc = "sendSlice" ->
                IF Len(orderedPages) = 0 THEN Idle("done")
                ELSE [pc |-> "sendPage", held |-> Nil, i |-> 1]
          [] st.pc = "sendPage" ->
                IF st.i = Len(orderedPages) THEN Idle("done")
                ELSE [st EXCEPT !.i = @ + 1]
          [] st.pc = "paginate" -> [st EXCEPT !.i = @ + 1]
          [] st.pc = "send" /\ Kind(a) = "multichan" ->
                IF st.i = Len(OutChans(a)) THEN Idle("recv")
                ELSE [st EXCEPT !.pc = "fwd", !.i = @ + 1]
          [] st.pc = "send" /\ Kind(a) = "output" -> Idle("call")
          [] OTHER -> Idle("recv")

\* A receive on the actor's input channel can take an element from s
CanReceive(a, w, s) ==
    /\ ~panicked
    /\ proc[<<a, w>>].pc = "recv"
    /\ Lowest(<<a, w>>)
    /\ InChan(a) \notin closed
    /\ s \in DOMAIN proc
    /\ SendingOn(s) = InChan(a)
    /\ Lowest(s)

\* (mutant) the Indexer going to PAGINATE as soon as a slice has arrived
FindsClosedOrSliceArrived(a, w) ==
    /\ ~panicked
    /\ proc[<<a, w>>].pc = "recv"
    /\ Lowest(<<a, w>>)
    /\ \/ InChan(a) \in closed
       \/ a = "Indexer" /\ emitted["slices"] # <<>>

\* A receive on the actor's input channel finds it closed
FindsClosed(a, w) ==
    /\ ~panicked
    /\ proc[<<a, w>>].pc = "recv"
    /\ Lowest(<<a, w>>)
    /\ InChan(a) \in closed

(***************************************************************************)
(* Returning.  Base.Run (Concurrency > 1) and Multi.Run start their         *)
(* goroutines and then do nothing but receive from their results channel,   *)
(* so a result offered while the loop runs is modelled as received in the   *)
(* step that offers it; a result offered after the loop has returned is     *)
(* never received and its goroutine stays blocked in the send.              *)
(***************************************************************************)
\* (mutant) Multi.Run dropping the errors it receives
MultiResultIgnoresErrors(got, n, r) ==
    [returns |-> Len(got) + 1 = n, ret |-> Nil]

\* Multi.Run's receive loop having received got, on receiving r from one of
\* n actors: a non-nil r is returned at once, nil after the n-th result
MultiResult(got, n, r) ==
    IF r # Nil THEN [returns |-> TRUE, ret |-> r]
    ELSE [returns |-> Len(got) + 1 = n, ret |-> Nil]

\* (mutant) Multi.Run cancelling the context at the first error it receives,
\* receiving the result of every actor and returning the last error
ActorReturnsLastError(a, r) ==
    LET last == Len(multi.got) + 1 = Len(actors)
    IN  /\ closed' = closed \cup DeferredCloses(a)
        /\ IF multi.pc = "recv"
           THEN /\ actorRun' = [actorRun EXCEPT ![a] =
                                    [state |-> "delivered", ret |-> r]]
                /\ multi' = [pc |-> IF last THEN "returned" ELSE "recv",
                             got |-> Append(multi.got, r),
                             ret |-> IF r # Nil THEN r ELSE multi.ret]
                /\ cancelled' = (cancelled \/ last \/ r # Nil)
           ELSE /\ actorRun' = [actorRun EXCEPT ![a] =
                                    [state |-> "returned", ret |-> r]]
                /\ UNCHANGED <<multi, cancelled>>

\* An actor's Run returns r: the deferred closes run and the goroutine
\* Multi.Run started sends r on Multi's results channel.  When Multi.Run
\* returns, its deferred cancel cancels the context.
ActorReturns(a, r) ==
    LET m == MultiResult(multi.got, Len(actors), r)
    IN  /\ closed' = closed \cup DeferredCloses(a)
        /\ IF multi.pc = "recv"
           THEN /\ actorRun' = [actorRun EXCEPT ![a] =
                                    [state |-> "delivered", ret |-> r]]
                /\ multi' = [pc |-> IF m.returns THEN "returned" ELSE "recv",
                             got |-> Append(multi.got, r),
                             ret |-> m.ret]
                /\ cancelled' = (cancelled \/ m.returns)
           ELSE /\ actorRun' = [actorRun EXCEPT ![a] =
                                    [state |-> "returned", ret |-> r]]
                /\ UNCHANGED <<multi, cancelled>>

\* Base.Run's receive loop after count nil results, on receiving r from one
\* of n workers: a non-nil r is returned at once, nil after the n-th result
BaseResult(count, n, r) ==
    IF r # Nil THEN [returns |-> TRUE, ret |-> r]
    ELSE [returns |-> count + 1 = n, ret |-> Nil]

\* runIndividually of worker p returns r, the other goroutines being as in
\* procs.  With Concurrency > 1 the worker sends r to Base.Run, which returns
\* according to BaseResult; otherwise Base.Run returns r itself.
Finish(p, r, procs) ==
    LET a == p[1]
        b == BaseResult(baseCount[a], Conc(a), r)
    IN  IF Concurrency(a) > 1
        THEN IF actorRun[a].state = "running"
             THEN /\ proc' = [procs EXCEPT ![p] = Idle("exit")]
                  /\ baseCount' = [baseCount EXCEPT ![a] = @ + 1]
                  /\ IF b.returns
                     THEN ActorReturns(a, b.ret)
                     ELSE UNCHANGED <<actorRun, closed, multi, cancelled>>
             ELSE /\ proc' = [procs EXCEPT ![p] =
                                [pc |-> "result", held |-> r, i |-> 0]]
                  /\ UNCHANGED <<actorRun, closed, multi, cancelled, baseCount>>
        ELSE /\ proc' = [procs EXCEPT ![p] = Idle("exit")]
             /\ ActorReturns(a, r)
             /\ UNCHANGED baseCount

\* What a step that does not end a worker leaves unchanged
noReturn == <<actorRun, closed, multi, cancelled, baseCount>>

siteData == <<input, phase, pageSize, orderedPages, Indices, indexPages, files,
              unitVars>>

dataVars == <<siteData, histVars>>

\* The record of the elements received, once the element sender s hands over
\* has been received
Received(s) ==
    IF SendingOn(s) \in DOMAIN emitted
    THEN [emitted EXCEPT ![SendingOn(s)] = Append(@, SentItem(s))]
    ELSE emitted

(***************************************************************************)
(* Output actors (NewOutput around FileFinder)                              *)
(***************************************************************************)
\* The Output callback: FileFinder returns a path, ErrStop or the context's
\* error
OutputCall(a) ==
    LET p == <<a, 1>>
        r == FinderCall(finder[a], cancelled, FALSE)
    IN  /\ ~panicked
        /\ Kind(a) = "output"
        /\ proc[p].pc = "call"
        /\ finder' = [finder EXCEPT ![a] = r.st]
        /\ CASE r.kind = "value" ->
                    /\ proc' = [proc EXCEPT ![p] =
                                    [pc |-> "send", held |-> r.value, i |-> 0]]
                    /\ UNCHANGED noReturn
             [] r.kind = "stop" -> Finish(p, Nil, proc)
             [] r.kind = "error" -> Finish(p, Wrap(a, r.value), proc)
        /\ UNCHANGED <<dataVars, actors, faults, panicked>>

\* fs.ReadDir fails in the Output callback
OutputFail(a) ==
    LET p == <<a, 1>>
        r == FinderCall(finder[a], cancelled, TRUE)
    IN  /\ ~panicked
        /\ Kind(a) = "output"
        /\ proc[p].pc = "call"
        /\ faults < MaxFaults
        /\ r.kind = "error"
        /\ r.value = Failed
        /\ finder' = [finder EXCEPT ![a] = r.st]
        /\ Finish(p, Wrap(a, r.value), proc)
        /\ faults' = faults + 1
        /\ UNCHANGED <<dataVars, actors, panicked>>

(***************************************************************************)
(* Input and Map actors (NewInput, NewMap)                                  *)
(***************************************************************************)
\* The files an Input actor's callback creates for an element
InputCallback(a, elt) ==
    CASE a = "Templater[Post]" -> {TemplatePost(orderedPages[elt])}
      [] a = "Templater[IndexPage]" -> {TemplateIndexPage(elt, orderedPages)}
      [] a = "FeedBuilder" -> buildFeed(elt, orderedPages)
      [] a = "FileCopier::ThemeAssets" -> {FileCopier(elt, cancelled)}
      [] a = InputWithDone -> {}

\* An Input worker receives an element and its callback succeeds (or fails
\* with the context's error)
InputReceive(a, w, s) ==
    LET p == <<a, w>>
        sent == [proc EXCEPT ![s] = AfterSend(s)]
    IN  /\ Kind(a) = "input"
        /\ CanReceive(a, w, s)
        /\ IF ChecksContext(a) /\ cancelled
           THEN Finish(p, Wrap(a, Canceled), sent)
           ELSE proc' = sent /\ UNCHANGED noReturn
        /\ files' = files \cup InputCallback(a, SentItem(s))
        /\ emitted' = Received(s)
        /\ UNCHANGED <<input, phase, pageSize, orderedPages, Indices,
                       indexPages, actors, finder, faults, panicked, unitVars,
                       doneCalls>>

\* (mutant) NewMap's callback returning nil without the send on Output
MapReceiveWithoutSend(a, w, s) ==
    /\ Kind(a) = "map"
    /\ CanReceive(a, w, s)
    /\ proc' = [proc EXCEPT ![s] = AfterSend(s)]
    /\ emitted' = Received(s)
    /\ UNCHANGED noReturn
    /\ UNCHANGED <<siteData, doneCalls, actors, finder, faults, panicked>>

\* A Map worker receives an element; its callback returns the value the
\* worker goes on to send (or fails with the context's error)
MapReceive(a, w, s) ==
    LET p == <<a, w>>
        sent == [proc EXCEPT ![s] = AfterSend(s)]
    IN  /\ Kind(a) = "map"
        /\ CanReceive(a, w, s)
        /\ IF ChecksContext(a) /\ cancelled
           THEN Finish(p, Wrap(a, Canceled), sent)
           ELSE /\ proc' = [sent EXCEPT ![p] =
                                [pc |-> "send",
                                 held |-> MapValue(a, SentItem(s)),
                                 i |-> 0]]
                /\ UNCHANGED noReturn
        /\ emitted' = Received(s)
        /\ UNCHANGED <<siteData, doneCalls, actors, finder, faults, panicked>>

\* An Input or Map worker receives an element and runs its callback on it,
\* which is going to fail
CallbackFail(a, w, s) ==
    LET p == <<a, w>>
        sent == [proc EXCEPT ![s] = AfterSend(s)]
    IN  /\ Kind(a) \in {"input", "map"}
        /\ CanReceive(a, w, s)
        /\ faults < MaxFaults
        /\ proc' = [sent EXCEPT ![p] =
                        [pc |-> "failing", held |-> Failed, i |-> 0]]
        /\ faults' = faults + 1
        /\ emitted' = Received(s)
        /\ UNCHANGED noReturn
        /\ UNCHANGED <<siteData, doneCalls, actors, finder, panicked>>

\* The callback returns its error: runIndividually wraps and returns it
CallbackFailed(a, w) ==
    LET p == <<a, w>>
    IN  /\ ~panicked
        /\ proc[p].pc = "failing"
        /\ Finish(p, Wrap(a, proc[p].held), proc)
        /\ UNCHANGED <<dataVars, actors, finder, faults, panicked>>

\* The actors made by NewInput with a done callback other than nil (the
\* Orderer's own is part of OrdererSeesClosed)
HasDone(a) == a = InputWithDone

\* An Input or Map worker finds its input closed: done, if there is one, is
\* called and returns nil; then ErrStop, so runIndividually returns nil
WorkerSeesClosed(a, w) ==
    /\ Kind(a) \in {"input", "map"}
    /\ FindsClosed(a, w)
    /\ doneCalls' = IF HasDone(a) THEN doneCalls + 1 ELSE doneCalls
    /\ Finish(<<a, w>>, Nil, proc)
    /\ UNCHANGED <<siteData, emitted, actors, finder, faults, panicked>>

\* The select of NewInput's callback takes the ctx.Done() case
WorkerSeesCancel(a, w) ==
    /\ ~panicked
    /\ Kind(a) \in {"input", "map", "orderer"}
    /\ proc[<<a, w>>].pc = "recv"
    /\ Lowest(<<a, w>>)
    /\ cancelled
    /\ Finish(<<a, w>>, Wrap(a, Canceled), proc)
    /\ UNCHANGED <<dataVars, actors, finder, faults, panicked>>

(***************************************************************************)
(* The Orderer (NewOrderer, Orderer.Run)                                    *)
(***************************************************************************)
ordererProc == <<"Orderer", 1>>

\* The per-element callback appends the page
OrdererReceive(s) ==
    /\ CanReceive("Orderer", 1, s)
    /\ orderedPages' = Append(orderedPages, NewOrderedPage(SentItem(s)))
    /\ proc' = [proc EXCEPT ![s] = AfterSend(s)]
    /\ emitted' = Received(s)
    /\ UNCHANGED <<input, phase, pageSize, Indices, indexPages, actors, finder,
                   closed, cancelled, actorRun, baseCount, multi, faults,
                   panicked, files, unitVars, doneCalls>>

\* The end-of-input callback orders the pages and goes on to send the slice
OrdererSeesClosed ==
    /\ FindsClosed("Orderer", 1)
    /\ orderedPages' = OrderPages(orderedPages)
    /\ proc' = [proc EXCEPT ![ordererProc] = Idle("sendSlice")]
    /\ doneCalls' = doneCalls + 1
    /\ UNCHANGED <<input, phase, pageSize, Indices, indexPages, actors, finder,
                   closed, cancelled, actorRun, baseCount, multi, faults,
                   panicked, files, unitVars, emitted>>

\* The end-of-input callback has sent everything: ErrStop, Orderer.Run
\* returns nil and closes both outputs
OrdererReturn ==
    /\ ~panicked
    /\ proc[ordererProc].pc = "done"
    /\ Finish(ordererProc, Nil, proc)
    /\ UNCHANGED <<dataVars, actors, finder, faults, panicked>>

(***************************************************************************)
(* The Indexer (Indexer.Run, paginate, paginateIndex)                       *)
(***************************************************************************)
indexerProc == <<"Indexer", 1>>

\* A slice arrives: its posts are pushed to the indices
IndexerReceive(s) ==
    /\ CanReceive("Indexer", 1, s)
    /\ Indices' = IndexSlice(Indices, SentItem(s), 1)
    /\ proc' = [proc EXCEPT ![s] = AfterSend(s)]
    /\ emitted' = Received(s)
    /\ UNCHANGED <<input, phase, pageSize, orderedPages, indexPages, actors,
                   finder,
                   closed, cancelled, actorRun, baseCount, multi, faults,
                   panicked, files, unitVars, doneCalls>>

\* The slice channel is closed: goto PAGINATE
IndexerSeesClosed ==
    /\ FindsClosed("Indexer", 1)
    /\ proc' = [proc EXCEPT ![indexerProc] =
                    [pc |-> "paginate", held |-> <<>>, i |-> 1]]
    /\ UNCHANGED <<dataVars, actors, finder, closed, cancelled, actorRun, baseCount,
                   multi, faults, panicked>>

\* The indices paginate has not reached yet
Unpaginated == DOMAIN Indices \ DOMAIN indexPages

\* paginate's loop takes the next index (in the map's arbitrary order) and
\* paginateIndex paginates it; its pages are then sent one by one
IndexerPaginate(id) ==
    LET st == proc[indexerProc]
        r == Paginate(Indices[id], pageSize, orderedPages)
    IN  /\ ~panicked
        /\ st.pc = "paginate"
        /\ st.i > Len(st.held)
        /\ id \in Unpaginated
        /\ Indices' = [Indices EXCEPT ![id] = r.idx]
        /\ indexPages' = indexPages @@ (id :> r.pages)
        /\ proc' = [proc EXCEPT ![indexerProc] =
                        [pc |-> "paginate", held |-> r.pages, i |-> 1]]
        /\ UNCHANGED <<input, phase, pageSize, orderedPages, actors, finder, closed,
                       cancelled, actorRun, baseCount, multi, faults, panicked,
                       files, unitVars, histVars>>

\* Every index is paginated and sent: Indexer.Run returns nil
IndexerReturn ==
    LET st == proc[indexerProc]
    IN  /\ ~panicked
        /\ st.pc = "paginate"
        /\ st.i > Len(st.held)
        /\ Unpaginated = {}
        /\ Finish(indexerProc, Nil, proc)
        /\ UNCHANGED <<dataVars, actors, finder, faults, panicked>>

\* One of the Indexer's two selects takes the ctx.Done() case
IndexerSeesCancel ==
    LET st == proc[indexerProc]
    IN  /\ ~panicked
        /\ cancelled
        /\ \/ st.pc = "recv"
           \/ st.pc = "paginate" /\ st.i <= Len(st.held)
        /\ Finish(indexerProc, Canceled, proc)
        /\ UNCHANGED <<dataVars, actors, finder, faults, panicked>>

(***************************************************************************)
(* The fan-out (MultiChan.Run)                                              *)
(***************************************************************************)
fanProc == <<"MultiChan", 1>>

\* An element arrives and is to be forwarded to the first output
FanReceive(s) ==
    /\ CanReceive("MultiChan", 1, s)
    /\ proc' = [proc EXCEPT ![s] = AfterSend(s),
                            ![fanProc] = [pc |-> "fwd", held |-> SentItem(s),
                                          i |-> 1]]
    /\ emitted' = Received(s)
    /\ UNCHANGED <<siteData, doneCalls, actors, finder, closed, cancelled,
                   actorRun, baseCount, multi, faults, panicked>>

\* The inner select finds the context live and takes the default case: the
\* goroutine commits to the send on output i
FanForward ==
    /\ ~panicked
    /\ proc[fanProc].pc = "fwd"
    /\ ~cancelled
    /\ proc' = [proc EXCEPT ![fanProc].pc = "send"]
    /\ UNCHANGED <<dataVars, actors, finder, closed, cancelled, actorRun, baseCount,
                   multi, faults, panicked>>

\* The input is closed: MultiChan.Run returns nil and closes the outputs
FanSeesClosed ==
    /\ FindsClosed("MultiChan", 1)
    /\ Finish(fanProc, Nil, proc)
    /\ UNCHANGED <<dataVars, actors, finder, faults, panicked>>

\* The outer or the inner select takes the ctx.Done() case
FanSeesCancel ==
    /\ ~panicked
    /\ cancelled
    /\ proc[fanProc].pc \in {"recv", "fwd"}
    /\ Finish(fanProc, Canceled, proc)
    /\ UNCHANGED <<dataVars, actors, finder, faults, panicked>>

(***************************************************************************)
(* Panics                                                                   *)
(***************************************************************************)
\* A goroutine is blocked in a send on a channel that has been closed: the
\* send panics
Panic(p) ==
    /\ ~panicked
    /\ SendingOn(p) \in closed
    /\ panicked' = TRUE
    /\ UNCHANGED <<dataVars, actors, proc, finder, closed, cancelled, actorRun,
                   baseCount, multi, faults>>

\* The workers of the actors Multi.Run runs, and the senders that can be
\* paired with a worker of actor a
InputWorkers ==
    {p \in ProcsOf(Append(Actors, InputWithDone)) :
        Kind(p[1]) \in {"input", "map", "orderer"}}

Workers == InputWorkers \cap DOMAIN proc

Senders ==
    [a \in {b \in ActorSet \cup {InputWithDone} : InChan(b) # Nil} |->
        {<<Upstream(a), w>> : w \in 1..Conc(Upstream(a))}]

SendersTo(a) == Senders[a]

\* The steps of a run in which no callback fails
NextClean ==
    \/ \E a \in DOMAIN finder : OutputCall(a)
    \/ \E p \in Workers : \E s \in SendersTo(p[1]) : InputReceive(p[1], p[2], s)
    \/ \E p \in Workers : \E s \in SendersTo(p[1]) : MapReceive(p[1], p[2], s)
    \/ \E p \in Workers : WorkerSeesClosed(p[1], p[2])
    \/ \E s \in SendersTo("Orderer") : OrdererReceive(s)
    \/ OrdererSeesClosed
    \/ OrdererReturn
    \/ \E s \in SendersTo("Indexer") : IndexerReceive(s)
    \/ IndexerSeesClosed
    \/ \E id \in {GlobalID} \cup TagTexts : IndexerPaginate(id)
    \/ IndexerReturn
    \/ \E s \in SendersTo("MultiChan") : FanReceive(s)
    \/ FanForward
    \/ FanSeesClosed

\* The steps of Multi.Run on the theme finder and the theme copier, callbacks
\* failing or not
NextTheme ==
    \/ \E a \in DOMAIN finder : OutputCall(a)
    \/ \E a \in DOMAIN finder : OutputFail(a)
    \/ \E p \in Workers : \E s \in SendersTo(p[1]) : InputReceive(p[1], p[2], s)
    \/ \E p \in Workers : \E s \in SendersTo(p[1]) : CallbackFail(p[1], p[2], s)
    \/ \E p \in Workers : CallbackFailed(p[1], p[2])
    \/ \E p \in Workers : WorkerSeesClosed(p[1], p[2])
    \/ \E p \in Workers : WorkerSeesCancel(p[1], p[2])

\* The steps that exist only once a callback has failed
NextFault ==
    \/ \E a \in DOMAIN finder : OutputFail(a)
    \/ \E p \in Workers : \E s \in SendersTo(p[1]) : CallbackFail(p[1], p[2], s)
    \/ \E p \in Workers : CallbackFailed(p[1], p[2])
    \/ \E p \in Workers : WorkerSeesCancel(p[1], p[2])
    \/ IndexerSeesCancel
    \/ FanSeesCancel
    \/ \E p \in DOMAIN proc : Panic(p)

NextPipeline == NextClean \/ NextFault

\* The theme branch alone: Multi.Run on the two actors that copy the theme
InitTheme ==
    /\ input = <<>>
    /\ phase = "pipeline"
    /\ pageSize = PipelinePageSize
    /\ orderedPages = <<>>
    /\ Indices = <<>>
    /\ indexPages = <<>>
    /\ \E nTheme \in 0..MaxThemeFiles :
            MultiStart(<<"FileFinder::ThemeAssets", "FileCopier::ThemeAssets">>, 0, nTheme)

SpecTheme == InitTheme /\ [][NextTheme]_vars /\ WF_vars(NextTheme)

\* Multi.Run on the theme finder and an Input actor with a done callback
InitInput ==
    /\ input = <<>>
    /\ phase = "pipeline"
    /\ pageSize = PipelinePageSize
    /\ orderedPages = <<>>
    /\ Indices = <<>>
    /\ indexPages = <<>>
    /\ \E nTheme \in 0..MaxThemeFiles :
            MultiStart(<<"FileFinder::ThemeAssets", InputWithDone>>, 0, nTheme)

SpecInput == InitInput /\ [][NextTheme]_vars /\ WF_vars(NextTheme)

\* The post branch up to the post Templater: Multi.Run on the actors that
\* find, read, parse, order, index and template the posts, callbacks failing
\* or not.  (Nothing receives from the Indexer's output here.)
PostActors ==
    <<"FileFinder::PostSources", "FileReader", "PostParser", "Orderer",
      "Indexer", "Templater[Post]">>

InitPosts ==
    /\ input = <<>>
    /\ phase = "pipeline"
    /\ pageSize = PipelinePageSize
    /\ orderedPages = <<>>
    /\ Indices = <<>>
    /\ indexPages = <<>>
    /\ \E nPosts \in 0..MaxFiles : MultiStart(PostActors, nPosts, 0)

NextPosts ==
    \/ \E a \in DOMAIN finder : OutputCall(a)
    \/ \E a \in DOMAIN finder : OutputFail(a)
    \/ \E p \in Workers : \E s \in SendersTo(p[1]) : InputReceive(p[1], p[2], s)
    \/ \E p \in Workers : \E s \in SendersTo(p[1]) : MapReceive(p[1], p[2], s)
    \/ \E p \in Workers : \E s \in SendersTo(p[1]) : CallbackFail(p[1], p[2], s)
    \/ \E p \in Workers : CallbackFailed(p[1], p[2])
    \/ \E p \in Workers : WorkerSeesClosed(p[1], p[2])
    \/ \E p \in Workers : WorkerSeesCancel(p[1], p[2])
    \/ \E s \in SendersTo("Orderer") : OrdererReceive(s)
    \/ OrdererSeesClosed
    \/ OrdererReturn
    \/ \E s \in SendersTo("Indexer") : IndexerReceive(s)
    \/ IndexerSeesClosed
    \/ \E id \in {GlobalID} \cup TagTexts : IndexerPaginate(id)
    \/ IndexerReturn
    \/ IndexerSeesCancel
    \/ \E p \in DOMAIN proc : Panic(p)

SpecPosts == InitPosts /\ [][NextPosts]_vars /\ WF_vars(NextPosts)

\* The whole pipeline in a run without callback failure, with an Indexer of
\* a page size small enough for an index to have several pages, on a site of
\* the posts p1.md, p3.md, ..: their dates differ and each is tagged go
OddFS(n) ==
    ("." :> [i \in 1..n |-> [Name |-> FileName("p", 2 * i - 1) \o markdownSuffix,
                              IsDir |-> FALSE]])

InitPaged ==
    /\ input = <<>>
    /\ phase = "pipeline"
    /\ pageSize \in 1..MaxPageSize
    /\ orderedPages = <<>>
    /\ Indices = <<>>
    /\ indexPages = <<>>
    /\ \E nPosts \in 0..MaxFiles : MultiStartOn(Actors, OddFS(nPosts), 0)

SpecPaged == InitPaged /\ [][NextClean]_vars /\ WF_vars(NextClean)

\* The whole pipeline in a run without callback failure, the record of the
\* elements received being kept for every channel
AllEmitted == [c \in Channels |-> <<>>]

InitWorkers ==
    /\ input = <<>>
    /\ phase = "pipeline"
    /\ pageSize = PipelinePageSize
    /\ orderedPages = <<>>
    /\ Indices = <<>>
    /\ indexPages = <<>>
    /\ \E nPosts \in 0..MaxFiles :
            \E nTheme \in 0..(MaxFiles - nPosts) :
                MultiStartTracking(Actors,
                                   FlatFS("p", markdownSuffix, nPosts),
                                   nTheme, AllEmitted)

SpecWorkers == InitWorkers /\ [][NextClean]_vars /\ WF_vars(NextClean)

\* The whole pipeline in a run without callback failure
SpecClean == InitPipeline /\ [][NextClean]_vars /\ WF_vars(NextClean)

\* The whole pipeline in a run in which up to MaxFaults callbacks fail
SpecPipeline == InitPipeline /\ [][NextPipeline]_vars /\ WF_vars(NextPipeline)

(***************************************************************************)
(* Properties of ordering and pagination (SpecOrder)                        *)
(***************************************************************************)
\* The Orderer has run OrderPages on its vector
Ordered == phase \in {"ordered", "indexed"}

Descending(s) == \A i \in 1..(Len(s) - 1) : s[i].Order >= s[i + 1].Order

StrictlyDescending(s) == \A i \in 1..(Len(s) - 1) : s[i].Order > s[i + 1].Order

Linked(s) ==
    \A i \in 1..Len(s) :
        /\ s[i].Next = IF i > 1 THEN s[i - 1].URL ELSE Nil
        /\ s[i].Prev = IF i < Len(s) THEN s[i + 1].URL ELSE Nil

DistinctOrders(s) ==
    \A i, j \in 1..Len(s) : i # j => s[i].Order # s[j].Order

\* C6: after OrderPages the list is sorted by descending order key, Next[i]
\* is the URL of the element before (nil at the head) and Prev[i] the URL of
\* the element after (nil at the tail), for the Orderer's vector and for
\* the pages of every index.
C6_OrderPagesSortsAndLinks ==
    /\ Ordered => Descending(orderedPages) /\ Linked(orderedPages)
    /\ \A id \in DOMAIN indexPages :
            Descending(indexPages[id]) /\ Linked(indexPages[id])

C6_Witness ==
    /\ Ordered
    /\ Len(orderedPages) = 2
    /\ orderedPages[1].Order > orderedPages[2].Order
    /\ orderedPages[1].Prev = orderedPages[2].URL
    /\ orderedPages[2].Next = orderedPages[1].URL
    /\ orderedPages[1].URL # orderedPages[2].URL

\* C7 (as stated): order keys strictly decrease along every sequence the
\* Orderer emits and along the pages of every index.
C7_StrictlyDecreasing ==
    /\ Ordered => StrictlyDescending(orderedPages)
    /\ \A id \in DOMAIN indexPages : StrictlyDescending(indexPages[id])

\* C7 (amended): order keys never increase along the Orderer's sequence and
\* strictly decrease when the posts' order keys are pairwise distinct; along
\* the pages of an index they strictly decrease.
C7_NonIncreasing ==
    /\ Ordered => Descending(orderedPages)
    /\ Ordered /\ DistinctOrders(orderedPages)
            => StrictlyDescending(orderedPages)
    /\ \A id \in DOMAIN indexPages : StrictlyDescending(indexPages[id])

C7_Witness ==
    /\ phase = "indexed"
    /\ Len(orderedPages) = 3
    /\ orderedPages[1].Order = orderedPages[2].Order
    /\ orderedPages[2].Order > orderedPages[3].Order
    /\ GlobalID \in DOMAIN indexPages
    /\ Len(indexPages[GlobalID]) >= 2

Interior(s) == 2..(Len(s) - 1)

\* C8 (as stated): in a sequence of two or more the head has no Prev, the
\* tail has no Next and every interior page has both links.
C8_HeadPrevTailNextAbsent ==
    LET Holds(s) ==
            Len(s) >= 2 =>
                /\ s[1].Prev = Nil
                /\ s[Len(s)].Next = Nil
                /\ \A i \in Interior(s) : s[i].Prev # Nil /\ s[i].Next # Nil
    IN  /\ Ordered => Holds(orderedPages)
        /\ \A id \in DOMAIN indexPages : Holds(indexPages[id])

\* C8 (amended): in a sequence of two or more the head has no Next, the
\* tail has no Prev and every interior page has both links.
C8_HeadNextTailPrevAbsent ==
    LET Holds(s) ==
            Len(s) >= 2 =>
                /\ s[1].Next = Nil
                /\ s[Len(s)].Prev = Nil
                /\ \A i \in Interior(s) : s[i].Prev # Nil /\ s[i].Next # Nil
    IN  /\ Ordered => Holds(orderedPages)
        /\ \A id \in DOMAIN indexPages : Holds(indexPages[id])

C8_Witness ==
    /\ Ordered
    /\ Len(orderedPages) = 3
    /\ orderedPages[2].Prev = orderedPages[3].URL
    /\ orderedPages[2].Next = orderedPages[1].URL

\* The page of an index with a given page number
PageNumbered(pages, k) ==
    CHOOSE p \in {pages[i] : i \in 1..Len(pages)} : p.Content.Number = k

IndexPageURL(id, name) == PageURLs[PathJoin(id, name)]

\* C9 (as stated): in an index of two or more pages, page 0 (index.html)
\* has no Next and its Prev is the URL of page 1 (page-001.html), page 1
\* has Next = URL(index.html), and the highest page has no Prev.
C9_PageZeroPrevIsPageOne ==
    \A id \in DOMAIN indexPages :
        LET pages == indexPages[id]
            p0 == PageNumbered(pages, 0)
            p1 == PageNumbered(pages, 1)
            top == PageNumbered(pages, Len(pages) - 1)
        IN  Len(pages) >= 2 =>
                /\ p0.URL = IndexPageURL(id, "index.html")
                /\ p1.URL = IndexPageURL(id, "page-001.html")
                /\ p0.Next = Nil
                /\ p0.Prev = p1.URL
                /\ p1.Next = p0.URL
                /\ top.Prev = Nil

\* C9 (amended): in an index of two or more pages, page 0 (index.html) has
\* no Prev and its Next is the URL of page 1 (page-001.html), page 1 has
\* Prev = URL(index.html), and the highest page has no Next.
C9_PageZeroNextIsPageOne ==
    \A id \in DOMAIN indexPages :
        LET pages == indexPages[id]
            p0 == PageNumbered(pages, 0)
            p1 == PageNumbered(pages, 1)
            top == PageNumbered(pages, Len(pages) - 1)
        IN  Len(pages) >= 2 =>
                /\ p0.URL = IndexPageURL(id, "index.html")
                /\ p1.URL = IndexPageURL(id, "page-001.html")
                /\ p0.Prev = Nil
                /\ p0.Next = p1.URL
                /\ p1.Prev = p0.URL
                /\ top.Next = Nil

C9_Witness ==
    \E id \in DOMAIN indexPages :
        /\ Len(indexPages[id]) = 2
        /\ indexPages[id][1].Content.Number = 1
        /\ indexPages[id][2].Content.Number = 0
        /\ indexPages[id][2].Next = indexPages[id][1].URL

Ceil(n, s) == (n + s - 1) \div s

RECURSIVE Concat(_)
Concat(ss) == IF ss = <<>> THEN <<>> ELSE Head(ss) \o Concat(Tail(ss))

ActorList == Range(actors)

Returned(a) == actorRun[a].state # "running"

MultiReturned == multi.pc = "returned"

\* C1: when Multi.Run has returned, the Run of every actor has returned,
\* whether the actors succeeded or one of them returned an error.
C1_MultiWaitsForAllActors ==
    MultiReturned => \A a \in ActorList : Returned(a)

\* C2: once an actor's error has made Multi.Run return and cancel the
\* context, no actor stays blocked for ever in a channel operation: as long as
\* the Run of some actor has not returned, some goroutine can take a step.
C2_NoActorStaysBlocked ==
    (MultiReturned /\ multi.ret # Nil /\ cancelled /\ ~panicked) =>
        \/ \A a \in ActorList : Returned(a)
        \/ ENABLED NextTheme

\* The first non-nil result in a sequence of results, Nil when there is none
RECURSIVE FirstError(_)
FirstError(results) ==
    IF results = <<>> THEN Nil
    ELSE IF Head(results) # Nil THEN Head(results)
    ELSE FirstError(Tail(results))

AllReturnedNil ==
    \A a \in ActorList : Returned(a) /\ actorRun[a].ret = Nil

\* C3: Multi.Run returns nil exactly when every actor's Run returned nil, and
\* otherwise returns the first non-nil error it received from an actor.
C3_MultiReturnsFirstError ==
    /\ AllReturnedNil /\ actors # <<>> => MultiReturned
    /\ MultiReturned =>
        /\ multi.ret = Nil <=> AllReturnedNil
        /\ multi.ret = FirstError(multi.got)
        /\ multi.ret # Nil =>
                \E a \in ActorList :
                    actorRun[a].state = "delivered" /\ actorRun[a].ret = multi.ret

C3_Witness ==
    /\ MultiReturned
    /\ multi.got = <<Nil, Wrap("FileCopier::ThemeAssets", Failed)>>
    /\ multi.ret = Wrap("FileCopier::ThemeAssets", Failed)

\* The whole pipeline has shut down cleanly
PipelineDone ==
    /\ MultiReturned
    /\ multi.ret = Nil
    /\ \A a \in ActorList : actorRun[a] = [state |-> "delivered", ret |-> Nil]
    /\ closed = Channels

\* C4: with finitely many source files and no callback error, every actor's
\* Run eventually returns nil, every output channel is eventually closed and
\* Multi.Run (so Pipeline.Run) returns nil.
C4_CleanRunTerminates == <>PipelineDone

C4_Witness ==
    /\ PipelineDone
    /\ Len(orderedPages) = 2
    /\ DOMAIN indexPages = {GlobalID, "go"}
    /\ \A p \in DOMAIN proc : proc[p].pc = "exit"

\* C5: the Run of an actor with more than one worker has returned only when
\* all its workers have exited, also when a worker returned an error.
C5_BaseWaitsForAllWorkers ==
    \A a \in ActorList :
        Concurrency(a) > 1 /\ Returned(a) =>
            \A w \in 1..Conc(a) : proc[<<a, w>>].pc = "exit"

(***************************************************************************)
(* Properties of the Indexer's ingest (SpecTags)                            *)
(***************************************************************************)
\* The posts the Orderer's slice holds, as the Indexer points to them
AllPosts == 1..Len(orderedPages)

\* The posts the index with this id points to (none when there is no index)
PostsOf(id) ==
    IF id \in DOMAIN Indices THEN Range(Indices[id].Posts) ELSE {}

\* The posts whose tag list includes the text t
Tagged(t) == {i \in AllPosts : t \in Range(orderedPages[i].Content.Tags)}

\* The tag texts of the posts
TagTextsSeen == UNION {Range(orderedPages[i].Content.Tags) : i \in AllPosts}

Ingested == phase = "indexed"

FilesAt(path) == {f \in files : f.Path = path}

\* C12: within one run no output path is written by more than one task: the
\* paths of all post pages, all index pages of all indices and all feeds are
\* pairwise distinct, whatever the source paths and the tag texts.
C12_PathsWrittenOnce ==
    \A f \in files : \A g \in files : f.Path = g.Path => f = g

\* The run C12 fails on: the post index.md carries the tag "posts"; its page
\* and the first page of the tag's index are both created at posts/index.html
C12_Collision ==
    /\ Len(orderedPages) = 1
    /\ {f.Actor : f \in FilesAt("posts/index.html")} =
            {"Templater[Post]", "Templater[IndexPage]"}

(***************************************************************************)
(* Runs of the pipeline on the same site (SpecClean)                        *)
(***************************************************************************)
\* The pages one run makes of a site of n posts when the files reach the
\* Orderer in the order FileFinder found them
SequentialPages(n) ==
    OrderPages([i \in 1..n |->
        NewOrderedPage(
            MapValue("PostParser", MapValue("FileReader", SourcePath(i))))])

\* The post pages written in that run
SequentialPostFiles(n) ==
    {TemplatePost(SequentialPages(n)[i]) : i \in 1..n}

PostFiles == {f \in files : f.Actor = "Templater[Post]"}

\* C13: every run of the pipeline on the same input writes the same files with
\* the same contents (the same post order and the same Prev/Next links),
\* under any interleaving of the worker goroutines: a finished run on n posts
\* has written what the run that keeps the files in order writes.
C13_SameOutputEveryRun ==
    PipelineDone => PostFiles = SequentialPostFiles(Len(orderedPages))

\* One run on two posts of the same date that writes what the in-order run
\* writes (C13_SameOutputEveryRun fails on another run on the same site)
C13_InOrderRun ==
    /\ PipelineDone
    /\ Len(orderedPages) = 2
    /\ orderedPages[1].Order = orderedPages[2].Order
    /\ PostFiles = SequentialPostFiles(2)

(***************************************************************************)
(* Properties of the feeds (SpecTags)                                       *)
(***************************************************************************)
Feeds == {f \in files : f.Actor = "FeedBuilder"}

\* The index pages paginated (and sent on) so far
IndexPagesOf(id) == {indexPages[id][k] : k \in 1..Len(indexPages[id])}

AllIndexPages == UNION {IndexPagesOf(id) : id \in DOMAIN indexPages}

\* f lies where the feed of page is to lie: page's path with its trailing
\* .html replaced by .json
AtFeedPathOf(f, page) ==
    /\ HasSuffix(page.Path, ".html")
    /\ HasSuffix(f.Path, ".json")
    /\ SubSeq(f.Path, 1, Len(f.Path) - 5) = SubSeq(page.Path, 1, Len(page.Path) - 5)

\* C14: FeedBuilder creates a feed file for an index page if and only if the
\* page's index id is empty; the file lies at the page's path with the
\* trailing .html replaced by .json, and nothing is created for a tag index
\* page.
C14_FeedsForGlobalIndexOnly ==
    /\ \A page \in AllIndexPages :
          (page.Content.IndexID = "") <=>
              (\E f \in Feeds : AtFeedPathOf(f, page) /\ f.Data.Link = page.URL)
    /\ \A f \in Feeds :
          \E page \in AllIndexPages :
              /\ page.Content.IndexID = ""
              /\ AtFeedPathOf(f, page)
    /\ Cardinality(Feeds) =
          Cardinality({page \in AllIndexPages : page.Content.IndexID = ""})

C14_Witness ==
    /\ DOMAIN indexPages = {GlobalID, "go", "posts"}
    /\ Len(indexPages["go"]) = 2
    /\ {f.Path : f \in Feeds} = {"index.json", "page-001.json"}

\* The feed written for an index page
FeedOf(page) == CHOOSE f \in Feeds : AtFeedPathOf(f, page)

GlobalPages == {page \in AllIndexPages : page.Content.IndexID = ""}

\* C15: every feed document has as many items as its index page has posts,
\* and its i-th item is built from the i-th post of the page: link = post
\* URL, author = post author, created = post date, description = post
\* snippet.
C15_FeedItemsFollowPagePosts ==
    \A page \in GlobalPages :
        LET items == FeedOf(page).Data.Items
            posts == page.Content.Posts
        IN  /\ Len(items) = Len(posts)
            /\ \A i \in 1..Len(posts) :
                  LET post == orderedPages[posts[i]]
                  IN  /\ items[i].Link = post.URL
                      /\ items[i].Author = post.Content.Author
                      /\ items[i].Created = post.Content.Date
                      /\ items[i].Description = post.Content.Snippet

C15_Witness ==
    \E page \in GlobalPages :
        /\ Len(page.Content.Posts) = 2
        /\ FeedOf(page).Data.Items[1].Link = "http://site/posts/p2.html"
        /\ FeedOf(page).Data.Items[1].Description = "<p>body of p2.md"
        /\ FeedOf(page).Data.Items[2].Author = "author of index.md"

\* The documents written at a feed path
FeedsAt(path) == {f.Data : f \in Feeds \cap FilesAt(path)}

GlobalPageCount ==
    IF GlobalID \in DOMAIN indexPages THEN Len(indexPages[GlobalID]) ELSE 0

\* C16: the feed of a global index page carries next_url equal to the page's
\* Next URL when the page has a Next link and no next_url otherwise; with two
\* global index pages index.json's next_url is the URL of page-001.html, and
\* with a single page index.json has no next_url.
C16_FeedNextURL ==
    /\ \A page \in GlobalPages :
          LET doc == FeedOf(page).Data
          IN  IF page.Next # Nil
              THEN "next_url" \in DOMAIN doc /\ doc.next_url = page.Next
              ELSE "next_url" \notin DOMAIN doc
    /\ GlobalPageCount = 2 =>
          \A doc \in FeedsAt("index.json") :
              /\ "next_url" \in DOMAIN doc
              /\ doc.next_url = "http://site/page-001.html"
    /\ GlobalPageCount = 1 =>
          \A doc \in FeedsAt("index.json") : "next_url" \notin DOMAIN doc

C16_Witness ==
    /\ GlobalPageCount = 2
    /\ \E doc \in FeedsAt("index.json") :
          "next_url" \in DOMAIN doc /\ doc.next_url = "http://site/page-001.html"
    /\ \E doc \in FeedsAt("page-001.json") : "next_url" \notin DOMAIN doc

(***************************************************************************)
(* Properties of snippet (SpecSnippet)                                      *)
(***************************************************************************)
IsPrefix(p, s) == Len(p) <= Len(s) /\ SubSeq(s, 1, Len(p)) = p

\* sub occurs in s
Contains(s, sub) ==
    \E k \in 1..(Len(s) - Len(sub) + 1) : SubSeq(s, k, k + Len(sub) - 1) = sub

\* snippet has been applied to the body, and again to what it returned
Reapplied == phase = "unit" /\ Len(result) = 2

\* C17 (as stated): snippet extraction is idempotent: for every body b,
\* snippet(snippet(b)) = snippet(b).
C17_SnippetIdempotent == Reapplied => result[2] = result[1]

\* C17 (amended): snippet(snippet(b)) is a prefix of snippet(b), and it is
\* snippet(b) itself exactly when snippet(b) is empty: a non-empty snippet
\* holds no `<!-- more -->` and ends before any `</p>` that would keep it.
C17_SnippetShrinks ==
    Reapplied =>
        /\ IsPrefix(result[2], result[1])
        /\ (result[2] = result[1]) <=> (result[1] = "")
        /\ ~Contains(result[1], MoreMarker)

C17_Witness ==
    /\ Reapplied
    /\ buffer = "a</p><!-- more -->"
    /\ result = <<"a</p>", "a">>

\* C18: snippet returns a prefix of the body: the prefix before the first
\* `<!-- more -->` if the marker occurs; otherwise the prefix before the
\* first `</p>`, cut to at most 1024 bytes; and the empty string when the
\* body holds neither.
C18_SnippetIsPrefix ==
    (phase = "unit" /\ Len(result) >= 1) =>
        LET r == result[1]
        IN  /\ IsPrefix(r, buffer)
            /\ Contains(buffer, MoreMarker) =>
                  /\ IsPrefix(r \o MoreMarker, buffer)
                  /\ ~Contains(SubSeq(buffer, 1, Len(r) + Len(MoreMarker) - 1),
                               MoreMarker)
            /\ (~Contains(buffer, MoreMarker) /\ Contains(buffer, ParagraphEnd)) =>
                  \E q \in {SubSeq(buffer, 1, k) : k \in 0..Len(buffer)} :
                      /\ IsPrefix(q \o ParagraphEnd, buffer)
                      /\ ~Contains(SubSeq(buffer, 1, Len(q) + Len(ParagraphEnd) - 1),
                                   ParagraphEnd)
                      /\ r = IF Len(q) <= 1024 THEN q ELSE SubSeq(q, 1, 1024)
            /\ (~Contains(buffer, MoreMarker) /\ ~Contains(buffer, ParagraphEnd)) =>
                  r = ""

C18_Witness ==
    /\ phase = "unit"
    /\ buffer = LongText \o ParagraphEnd \o "a"
    /\ Len(result) = 1
    /\ Len(result[1]) = 1024

(***************************************************************************)
(* Properties of ParsePost (SpecParse)                                      *)
(***************************************************************************)
\* ParsePost has been applied to the buffer
Parsed == phase = "unit" /\ Len(result) = 1

BeginsWithStartFence == Len(buffer) >= 4 /\ SubSeq(buffer, 1, 4) = "---\n"

MissingStartFence(path) ==
    "parsing post " \o path \o ": scanning frontmatter: missing start fence"

MissingEndFence(path) ==
    "parsing post " \o path \o ": scanning frontmatter: missing end fence"

\* C19: ParsePost fails with ErrFrontmatterMissingStartFence, wrapped with the
\* source path, exactly when the buffer does not begin with `---\n`, whether
\* or not an end fence is present; and it fails with
\* ErrFrontmatterMissingEndFence when the buffer begins with the start fence
\* but holds no `\n---\n`.
C19_FenceErrors ==
    Parsed =>
        LET ret == result[1].ret
            path == result[1].sourcePath
        IN  /\ (ret.err = MissingStartFence(path)) <=> ~BeginsWithStartFence
            /\ (BeginsWithStartFence /\ ~Contains(buffer, "\n---\n")) =>
                  ret.err = MissingEndFence(path)
            /\ ret.err \in {MissingStartFence(path), MissingEndFence(path)} =>
                  ret.p = Nil /\ ~ret.panic

C19_Witness ==
    /\ Parsed
    /\ buffer = "a\n---\n"
    /\ result[1].sourcePath = "p2.md"
    /\ result[1].ret.err =
          "parsing post p2.md: scanning frontmatter: missing start fence"

\* The bytes after the start fence
AfterStartFence == SubSeq(buffer, 5, Len(buffer))

\* C20: for every buffer that begins with the start fence, ParsePost takes as
\* end fence the first `\n---\n` located after the start fence: the
\* frontmatter is the bytes between the start fence and that occurrence, the
\* body is everything after it, and if no end fence lies after the start
\* fence the result is ErrFrontmatterMissingEndFence and no other failure.
C20_EndFenceAfterStartFence ==
    (Parsed /\ BeginsWithStartFence) =>
        LET ret == result[1].ret
            rest == AfterStartFence
            k == Index(rest, "\n---\n")
        IN  IF k >= 0
            THEN /\ ~ret.panic
                 /\ ret.yaml = SubSeq(rest, 1, k)
                 /\ ret.err = Nil => ret.p.Body = SubSeq(rest, k + 6, Len(rest))
            ELSE ret.err = MissingEndFence(result[1].sourcePath)

\* The run C20 fails on: the end fence found at index 3, on the start fence's
\* own newline, and the slice data[4:3] panics
C20_EmptyFrontmatterPanics ==
    /\ Parsed
    /\ buffer = "---\n---\na"
    /\ result[1].ret.panic


(***************************************************************************)
(* Properties of the site without posts (SpecClean)                         *)
(***************************************************************************)
\* The site has no file under posts/
NoPosts ==
    /\ "FileFinder::PostSources" \in DOMAIN finder
    /\ finder["FileFinder::PostSources"].fs["."] = <<>>

\* The actors that write post pages, index pages and feeds
PageWriters == {"Templater[Post]", "Templater[IndexPage]", "FeedBuilder"}

\* C21: when the set of posts is empty the pipeline writes no post page, no
\* index page and no feed, the Indexer creates no index and sends nothing on
\* its output channel, and the run can only end with every actor and
\* Multi.Run returned nil.
C21_EmptySiteWritesNoPage ==
    NoPosts =>
        /\ {f \in files : f.Actor \in PageWriters} = {}
        /\ Indices = <<>>
        /\ indexPages = <<>>
        /\ SendingOn(indexerProc) = Nil
        /\ emitted["indexPages"] = <<>>
        /\ emitted["ordered"] = <<>>
        /\ multi.ret = Nil
        /\ (~ENABLED NextClean => PipelineDone)

\* The run of an empty site has ended, the Indexer having received the empty
\* slice
C21_Witness ==
    /\ NoPosts
    /\ PipelineDone
    /\ emitted["slices"] = <<<<>>>>
    /\ doneCalls = 1


(***************************************************************************)
(* Properties of the tag URLs (SpecTags)                                    *)
(***************************************************************************)
\* Page 0 of the paginated index id, as a set (empty while the index is not
\* paginated)
PageZero(id) ==
    IF id \in DOMAIN indexPages
    THEN {pg \in Range(indexPages[id]) : pg.Content.Number = 0}
    ELSE {}

\* C22: for every post and every tag of the post, the tag's URL after
\* conversion equals the URL of page 0 of the tag's index as the Indexer
\* produces it.
C22_TagURLIsIndexPageURL ==
    \A k \in 1..Len(orderedPages) :
        LET post == orderedPages[k].Content
        IN  \A i \in DOMAIN post.Tags :
                \A pg \in PageZero(post.Tags[i]) : post.TagURLs[i] = pg.URL

\* A post tagged c# whose tag links to c%23/index.html, while page 0 of the
\* index of c# has the URL with the path c and the fragment /index.html
C22_Witness ==
    /\ Len(orderedPages) = 1
    /\ orderedPages[1].Content.Tags = <<"c#">>
    /\ orderedPages[1].Content.TagURLs = <<"http://site/c%23/index.html">>
    /\ \E pg \in PageZero("c#") :
            /\ pg.URL = "http://site/c#/index.html"
            /\ pg.Path = "c#/index.html"

\* Where the tag's text has no byte that is special in a URL the two agree
C22_PlainTagsAgree ==
    \A k \in 1..Len(orderedPages) :
        LET post == orderedPages[k].Content
        IN  \A i \in DOMAIN post.Tags :
                post.Tags[i] # "c#" =>
                    \A pg \in PageZero(post.Tags[i]) : post.TagURLs[i] = pg.URL


(***************************************************************************)
(* Properties of the page counts (SpecTags)                                 *)
(***************************************************************************)
\* The times a post's tag list names the tag
TimesTagged(post, t) ==
    Cardinality({i \in DOMAIN post.Content.Tags : post.Content.Tags[i] = t})

\* There are posts and each of them carries the tag
CarriedByAll(t) ==
    /\ Len(orderedPages) > 0
    /\ \A k \in 1..Len(orderedPages) : TimesTagged(orderedPages[k], t) > 0

\* Both the tag's index and the global index are paginated
BothPaginated(t) == {t, GlobalID} \subseteq DOMAIN indexPages

\* C23: for every set of posts and every tag that every post carries, the
\* tag's index has the same number of pages as the global index.
C23_SharedTagSamePageCount ==
    \A t \in WideTagTexts :
        (CarriedByAll(t) /\ BothPaginated(t)) =>
            Len(indexPages[t]) = Len(indexPages[GlobalID])

\* One post tagged go twice, page size 1: the index of go has two pages,
\* the global index one
C23_Witness ==
    /\ Len(orderedPages) = 1
    /\ orderedPages[1].Content.Tags = <<"go", "go">>
    /\ pageSize = 1
    /\ BothPaginated("go")
    /\ Len(indexPages["go"]) = 2
    /\ Len(indexPages[GlobalID]) = 1

\* Where no post names the tag more than once, the page counts agree
C23_TagNamedOnceSamePageCount ==
    \A t \in WideTagTexts :
        (/\ CarriedByAll(t)
         /\ BothPaginated(t)
         /\ \A k \in 1..Len(orderedPages) : TimesTagged(orderedPages[k], t) = 1
         /\ \A k \in 1..Len(orderedPages) :
                TimesTagged(orderedPages[k], GlobalID) = 0) =>
            Len(indexPages[t]) = Len(indexPages[GlobalID])


(***************************************************************************)
(* Properties of the index pages' names (SpecTags)                          *)
(***************************************************************************)
\* k written with three digits, for k below 1000
ThreeDigits(k) ==
    Digit(k \div 100) \o Digit((k \div 10) % 10) \o Digit(k % 10)

\* The file name of page k of an index
ExpectedFileName(k) ==
    IF k = 0 THEN "index.html" ELSE "page-" \o ThreeDigits(k) \o ".html"

\* The output path of page k of the index id
ExpectedPath(id, k) ==
    IF id = GlobalID THEN ExpectedFileName(k)
    ELSE id \o "/" \o ExpectedFileName(k)

\* C24: for every index and page number k, the index page's file name is
\* index.html when k = 0 and page-NNN.html (k zero-padded to three digits)
\* when k >= 1; its output path is <index-id>/<filename> for a tag index and
\* just <filename> for the global index; and its order key is k.
C24_IndexPageNames ==
    /\ \A id \in DOMAIN indexPages :
        /\ {pg.Content.Number : pg \in Range(indexPages[id])} =
                0..(Len(indexPages[id]) - 1)
        /\ \A pg \in Range(indexPages[id]) :
            /\ pg.Content.IndexID = id
            /\ pg.Path = ExpectedPath(id, pg.Content.Number)
            /\ pg.Order = pg.Content.Number
    /\ \A k \in {0, 1, 9, 10, 99, 100, 999} :
            IndexFileName(k) = ExpectedFileName(k)

\* A tag index and the global index with a second page each
C24_Witness ==
    /\ {"go", GlobalID} \subseteq DOMAIN indexPages
    /\ \E pg \in Range(indexPages["go"]) :
            pg.Content.Number = 1 /\ pg.Path = "go/page-001.html" /\ pg.Order = 1
    /\ \E pg \in Range(indexPages["go"]) :
            pg.Content.Number = 0 /\ pg.Path = "go/index.html" /\ pg.Order = 0
    /\ \E pg \in Range(indexPages[GlobalID]) :
            pg.Content.Number = 2 /\ pg.Path = "page-002.html" /\ pg.Order = 2
    /\ \E pg \in Range(indexPages[GlobalID]) :
            pg.Content.Number = 0 /\ pg.Path = "index.html"


(***************************************************************************)
(* Properties of NewInput's end-of-input callback (SpecInput)               *)
(***************************************************************************)
\* The Input actor's Run has returned nil: its workers found the input closed
InputStopped ==
    /\ InputWithDone \in DOMAIN actorRun
    /\ Returned(InputWithDone)
    /\ actorRun[InputWithDone].ret = Nil

\* C25: for an Input actor with an end-of-input callback and any worker
\* count N >= 1, the end-of-input callback is invoked exactly once per run
\* after the input channel is observed closed.
C25_DoneCalledOnce ==
    /\ doneCalls <= 1
    /\ InputStopped => doneCalls = 1

\* Two workers have each found the input closed and each called done
C25_Witness ==
    /\ InputStopped
    /\ Conc(InputWithDone) > 1
    /\ doneCalls = Conc(InputWithDone)
    /\ \A w \in 1..Conc(InputWithDone) : proc[<<InputWithDone, w>>].pc = "exit"


(***************************************************************************)
(* Properties of the deferred closes under failure (SpecPosts)              *)
(***************************************************************************)
\* The Output and Map actors of the run, each with one output channel
SendingActors == {a \in Range(actors) : Kind(a) \in {"output", "map"}}

\* A worker of the actor holds a value it has not sent yet
HoldsUnsent(a) == \E w \in 1..Conc(a) : proc[<<a, w>>].pc = "send"

\* C26: no worker ever sends on an output channel after that channel has
\* been closed: in every interleaving of an Output or Map actor with N > 1
\* workers (including runs where one worker's callback returns an error),
\* the actor's output channel is closed only after every worker has made its
\* last send.
C26_ClosedAfterLastSend ==
    /\ ~panicked
    /\ \A a \in SendingActors :
            OutChans(a)[1] \in closed => ~HoldsUnsent(a)

\* One PostParser worker's callback failed, PostParser.Run returned the error
\* and closed the output, and the send of the other worker panicked
C26_Witness ==
    /\ panicked
    /\ Conc("PostParser") > 1
    /\ actorRun["PostParser"].ret = Wrap("PostParser", Failed)
    /\ "pages" \in closed
    /\ proc[<<"PostParser", 1>>].pc = "exit"
    /\ proc[<<"PostParser", 2>>].pc = "send"

(***************************************************************************)
(* Properties of the Orderer under cancellation (SpecPosts)                 *)
(***************************************************************************)
\* The Orderer is in its end-of-input callback and has not sent everything
OrdererEmitting == proc[ordererProc].pc \in {"sendSlice", "sendPage"}

\* C27: if the context is cancelled while the Orderer is in its end-of-input
\* step (before the slice has been received, or between two individual-page
\* emissions), the Orderer stops emitting, Orderer.Run returns and both of
\* its output channels are closed.  As a property of finite runs: a
\* cancelled run that can take no further step (and has not panicked) has
\* not left the Orderer inside that step, and its channels are closed.
C27_CancelledOrdererReturns ==
    (cancelled /\ ~panicked /\ ~ENABLED NextPosts) =>
        /\ ~OrdererEmitting
        /\ Returned("Orderer")
        /\ {"slices", "ordered"} \subseteq closed

\* The post Templater failed on the first page and its workers are gone: the
\* Orderer stays blocked in the send of the second page, its channels open
C27_Witness ==
    /\ cancelled
    /\ ~panicked
    /\ ~ENABLED NextPosts
    /\ proc[ordererProc] = [pc |-> "sendPage", held |-> Nil, i |-> 2]
    /\ emitted["ordered"] = <<1>>
    /\ ~Returned("Orderer")
    /\ {"slices", "ordered"} \cap closed = {}
    /\ MultiReturned
    /\ multi.ret = Wrap("Templater[Post]", Failed)

\* The Indexer took the ctx.Done() case before the slice was received: the
\* Orderer stays blocked in the send of the slice
C27_BlockedBeforeSlice ==
    /\ cancelled
    /\ ~panicked
    /\ ~ENABLED NextPosts
    /\ proc[ordererProc].pc = "sendSlice"
    /\ proc[indexerProc].pc = "exit"
    /\ ~Returned("Orderer")


(***************************************************************************)
(* Properties of the order of the sends (SpecPaged)                         *)
(***************************************************************************)
\* The positions 1..n in order: the pointers &orderedPages[i], first to last
Positions(n) == [i \in 1..n |-> i]

\* C28: on end of input the Orderer first sorts and cross-links the whole
\* vector, then sends the entire vector exactly once on the slice channel,
\* and only after that send completes sends each ordered page exactly once on
\* the individual channel in descending order-key order; no post's Prev/Next
\* link changes after the first emission.
C28_SliceThenPagesInOrder ==
    LET slices == emitted["slices"]
        pages == emitted["ordered"]
    IN  /\ Len(slices) <= 1
        /\ slices # <<>> =>
                /\ slices[1] = orderedPages
                /\ Descending(orderedPages)
                /\ Linked(orderedPages)
        /\ pages # <<>> => slices # <<>>
        /\ Len(pages) <= Len(orderedPages)
        /\ pages = Positions(Len(pages))
        /\ Returned("Orderer") =>
                /\ Len(slices) = 1
                /\ pages = Positions(Len(orderedPages))

\* Two posts, the later one first: the slice was sent once, then both pages
C28_Witness ==
    /\ Returned("Orderer")
    /\ Len(orderedPages) = 2
    /\ orderedPages[1].Order > orderedPages[2].Order
    /\ orderedPages[1].Prev = orderedPages[2].URL
    /\ emitted["slices"] = <<orderedPages>>
    /\ emitted["ordered"] = <<1, 2>>

\* The Indexer is paginating or has sent an index page
IndexerPaginating ==
    \/ proc[indexerProc].pc = "paginate"
    \/ indexPages # <<>>
    \/ emitted["indexPages"] # <<>>

\* C29: the Indexer sends no index page on its output channel before the
\* Orderer has finished sending every individual ordered page to the
\* PostTemplater: the slice channel is closed only when Orderer.Run returns,
\* and pagination starts only after that closure is observed.
C29_PaginationAfterPages ==
    /\ "slices" \in closed => Returned("Orderer")
    /\ Returned("Orderer") =>
            emitted["ordered"] = Positions(Len(orderedPages))
    /\ IndexerPaginating => "slices" \in closed

\* An index page has been sent, after both posts' pages
C29_Witness ==
    /\ Len(emitted["indexPages"]) = 1
    /\ emitted["ordered"] = <<1, 2>>
    /\ "slices" \in closed
    /\ \E f \in files : f.Actor = "Templater[Post]"

\* The pages of the index id received from the Indexer so far, in order
EmittedOf(id) ==
    SelectSeq(emitted["indexPages"], LAMBDA pg : pg.Content.IndexID = id)

\* C30: for each index, the Indexer emits that index's pages in descending
\* page-number order (highest page number first, page 0 last), each page
\* exactly once.
C30_IndexPagesHighestFirst ==
    \A id \in IndexIDs :
        LET seq == EmittedOf(id)
        IN  /\ seq # <<>> => id \in DOMAIN indexPages
            /\ \A j \in 1..Len(seq) :
                    /\ j <= Len(indexPages[id])
                    /\ seq[j] = indexPages[id][j]
                    /\ seq[j].Content.Number = Len(indexPages[id]) - j
            /\ (Returned("Indexer") /\ id \in DOMAIN indexPages) =>
                    Len(seq) = Len(indexPages[id])

\* Two posts tagged go, page size 1: page 1 then page 0 of both indices
C30_Witness ==
    /\ Returned("Indexer")
    /\ pageSize = 1
    /\ Len(emitted["indexPages"]) = 4
    /\ Len(EmittedOf("go")) = 2
    /\ Len(EmittedOf(GlobalID)) = 2
    /\ [j \in 1..2 |-> EmittedOf("go")[j].Content.Number] = <<1, 0>>
    /\ [j \in 1..2 |-> EmittedOf(GlobalID)[j].Content.Number] = <<1, 0>>

(***************************************************************************)
(* Properties of the fan-out (SpecPaged)                                    *)
(***************************************************************************)
\* s is the beginning of t
StartsWith(t, s) == Len(s) <= Len(t) /\ SubSeq(t, 1, Len(s)) = s

FanOutputs == OutChans("MultiChan")

FanExited == proc[fanProc].pc = "exit"

\* C31: in a run without cancellation, what each output of the fan-out has
\* delivered is the beginning of what the fan-out has received, in the same
\* order and without repetition; an output is never more than one element
\* ahead of a later output and never behind it (element k+1 is forwarded to
\* no output before element k has been delivered to all of them); once the
\* fan-out has exited every output has delivered every element received and
\* is closed.
C31_FanOutForwardsInOrder ==
    /\ \A k \in DOMAIN FanOutputs :
            StartsWith(emitted["indexPages"], emitted[FanOutputs[k]])
    /\ \A k \in DOMAIN FanOutputs : \A j \in DOMAIN FanOutputs :
            k < j =>
                /\ Len(emitted[FanOutputs[j]]) <= Len(emitted[FanOutputs[k]])
                /\ Len(emitted[FanOutputs[k]]) <= Len(emitted[FanOutputs[j]]) + 1
    /\ \A i \in DOMAIN emitted["indexPages"] :
       \A j \in DOMAIN emitted["indexPages"] :
            i # j => emitted["indexPages"][i] # emitted["indexPages"][j]
    /\ FanExited =>
            \A k \in DOMAIN FanOutputs :
                /\ emitted[FanOutputs[k]] = emitted["indexPages"]
                /\ FanOutputs[k] \in closed

\* The fan-out has exited after forwarding the pages of two indices, two
\* pages each
C31_Witness ==
    /\ FanExited
    /\ ~cancelled
    /\ Len(emitted["indexPages"]) = 4
    /\ emitted["fan1"] = emitted["indexPages"]
    /\ "fan1" \in closed

(***************************************************************************)
(* Properties of the workers of Input and Map actors (SpecWorkers)          *)
(***************************************************************************)
SetOf(s) == {s[i] : i \in DOMAIN s}

NoRepeat(s) == \A i \in DOMAIN s : \A j \in DOMAIN s : i # j => s[i] # s[j]

\* The paths the FileFinder of actor a finds in its (flat) directory
FoundBy(a) == {e.Name : e \in SetOf(finder[a].fs["."])}

\* What the workers of actor a have received, one entry per receive
Handled(a) == emitted[InChan(a)]

SendingWorkers(a) == {q \in DOMAIN proc : q[1] = a /\ proc[q].pc = "send"}

\* The values the workers of a Map actor are still to send
InFlight(a) == {proc[p].held : p \in SendingWorkers(a)}

MapActors == {a \in ActorSet : Kind(a) = "map"}

ReceivingActors == {a \in ActorSet : Kind(a) \in {"input", "map", "orderer"}}

\* Everything sent to actor a: what its upstream Output or Map actor had to
\* send once that actor has closed the channel
SentTo(a) ==
    CASE a = "FileCopier::ThemeAssets" -> FoundBy("FileFinder::ThemeAssets")
      [] a = "FileReader" -> FoundBy("FileFinder::PostSources")
      [] a = "PostParser" ->
            {MapValue("FileReader", e) : e \in FoundBy("FileFinder::PostSources")}
      [] a = "Orderer" ->
            {MapValue("PostParser", MapValue("FileReader", e)) :
                e \in FoundBy("FileFinder::PostSources")}

\* C32: in a run without error, no element is received twice by the workers
\* of an Input or Map actor, and once the input channel is closed every
\* element sent on it has been received exactly once; the outputs of a Map
\* actor and the values its workers are about to send are, one for one, the
\* values of the callback on the elements received, and when the output is
\* closed each of them has been sent exactly once.  (The Orderer is the
\* Input actor with one worker: its vector holds one entry per page.)
C32_EachElementHandledOnce ==
    /\ \A a \in ReceivingActors : NoRepeat(Handled(a))
    /\ \A a \in {"FileCopier::ThemeAssets", "FileReader", "PostParser", "Orderer"} :
            /\ SetOf(Handled(a)) \subseteq SentTo(a)
            /\ InChan(a) \in closed => SetOf(Handled(a)) = SentTo(a)
    /\ \A a \in MapActors :
            LET out == emitted[OutChans(a)[1]]
            IN  /\ NoRepeat(out)
                /\ Len(out) + Cardinality(SendingWorkers(a)) = Len(Handled(a))
                /\ SetOf(out) \cup InFlight(a) =
                        {MapValue(a, e) : e \in SetOf(Handled(a))}
                /\ OutChans(a)[1] \in closed =>
                        /\ SendingWorkers(a) = {}
                        /\ Len(out) = Len(Handled(a))
    /\ emitted["pages"] # <<>> /\ doneCalls = 0 =>
            orderedPages =
                [i \in DOMAIN emitted["pages"] |->
                    NewOrderedPage(emitted["pages"][i])]
    /\ {f \in files : f.Actor = "FileCopier::ThemeAssets"} =
            {FileCopier(e, FALSE) : e \in SetOf(Handled("FileCopier::ThemeAssets"))}

\* Both Map actors have closed their outputs after two posts, the second
\* file having overtaken the first between the FileReader's two workers
C32_Witness ==
    /\ {"files", "pages"} \subseteq closed
    /\ Len(emitted["sources"]) = 2
    /\ Len(emitted["pages"]) = 2
    /\ emitted["files"][1].Path = emitted["sources"][2]
    /\ ~cancelled

(***************************************************************************)
(* Properties of FileFinder (SpecFinder)                                    *)
(***************************************************************************)
\* The paths of the entries of directory d that pass test Keep, in the
\* directory's order
PathsIn(fs, d, Keep(_)) ==
    LET kept == SelectSeq(fs[d], Keep)
    IN  [i \in DOMAIN kept |-> FinderJoin(d, kept[i].Name)]

\* The files with the suffix in breadth-first order: those of the first
\* directory of the queue, then those of the rest of the queue followed by
\* the directories found in the first
RECURSIVE BreadthFirst(_, _, _)
BreadthFirst(fs, ext, queue) ==
    IF queue = <<>> THEN <<>>
    ELSE LET d == Head(queue)
             IsMatch(e) == ~e.IsDir /\ HasSuffix(e.Name, ext)
             IsDirectory(e) == e.IsDir
         IN  PathsIn(fs, d, IsMatch)
                \o BreadthFirst(fs, ext,
                                Tail(queue) \o PathsIn(fs, d, IsDirectory))

\* Every regular file of the tree whose name ends with the suffix
MatchingFiles(fs, ext) ==
    UNION {{FinderJoin(d, e.Name) :
                e \in {x \in SetOf(fs[d]) : ~x.IsDir /\ HasSuffix(x.Name, ext)}} :
           d \in DOMAIN fs}

Directories(fs) ==
    UNION {{FinderJoin(d, e.Name) : e \in {x \in SetOf(fs[d]) : x.IsDir}} :
           d \in DOMAIN fs}

FinderReturned(kind, value) == [kind |-> kind, value |-> value]

\* C33: without cancellation or read error, the successive calls of the
\* closure return the files with the suffix in breadth-first order, each
\* regular file with the suffix exactly once and no directory, and from the
\* call after the last file on every call returns ErrStop.
C33_FinderBreadthFirstThenStop ==
    LET st == finder[TheFinder]
        expected == BreadthFirst(st.fs, st.ext, <<".">>)
    IN  phase = "finder" /\ ~cancelled /\ faults = 0 =>
            /\ NoRepeat(expected)
            /\ SetOf(expected) = MatchingFiles(st.fs, st.ext)
            /\ SetOf(expected) \cap Directories(st.fs) = {}
            /\ \A i \in DOMAIN result :
                    result[i] = IF i <= Len(expected)
                                THEN FinderReturned("value", expected[i])
                                ELSE FinderReturned("stop", "")

\* Five markdown files on three levels, one of them in a directory named
\* like a markdown file, have been returned, then ErrStop twice
C33_Witness ==
    /\ phase = "finder"
    /\ ~cancelled /\ faults = 0
    /\ finder[TheFinder].ext = markdownSuffix
    /\ Len(result) = 7
    /\ result[2] = FinderReturned("value", "d/a.md")
    /\ result[3] = FinderReturned("value", "e.md/a.md")
    /\ result[4] = FinderReturned("value", "d/d/a.md")
    /\ result[6] = FinderReturned("stop", "")
    /\ result[7] = FinderReturned("stop", "")

\* The call that starts in closure state st finds no file to return among
\* the entries left and has a directory to go on with
NeedsRead(st) ==
    /\ \A e \in SetOf(st.entries) : e.IsDir \/ ~HasSuffix(e.Name, st.ext)
    /\ \/ st.dirs # <<>>
       \/ \E e \in SetOf(st.entries) : e.IsDir

\* C34: once the context is cancelled no call of the closure reads a
\* directory, and a call that would have to read one returns the context's
\* error.
C34_NoReadOnceCancelled ==
    [][phase = "finder" /\ cancelled /\ result' # result =>
            /\ finder'[TheFinder].reads = finder[TheFinder].reads
            /\ NeedsRead(finder[TheFinder]) =>
                    result'[Len(result')] = FinderReturned("error", Canceled)]_vars

\* After a file of the root was returned the context was cancelled, and the
\* next call returned the context's error with directories still unread
C34_Witness ==
    /\ phase = "finder"
    /\ cancelled
    /\ Len(result) = 2
    /\ result[1].kind = "value"
    /\ result[2] = FinderReturned("error", Canceled)
    /\ finder[TheFinder].reads = <<".">>
    /\ Cardinality(DOMAIN finder[TheFinder].fs) > 2

(***************************************************************************)
(* Properties of the error Multi.Run returns (SpecTheme)                    *)
(***************************************************************************)
\* The errors of callbacks that failed by themselves, as runIndividually
\* wraps them, and the errors that say the context was cancelled
OwnErrors == {Wrap(a, Failed) : a \in ActorSet}

CancellationErrors == {Canceled} \cup {Wrap(a, Canceled) : a \in ActorSet}

\* C35: the context Multi.Run is called with being never cancelled, an error
\* Multi.Run returns is the own error of an actor whose callback failed,
\* never the error of a cancelled context; no result Multi.Run receives
\* before it returns is such an error; and when a callback has failed
\* Multi.Run does not return nil.
C35_MultiReturnsOwnError ==
    /\ \A i \in DOMAIN multi.got : multi.got[i] \notin CancellationErrors
    /\ MultiReturned /\ multi.ret # Nil =>
            /\ multi.ret \in OwnErrors
            /\ multi.ret \notin CancellationErrors
            /\ faults > 0
    /\ MultiReturned /\ faults > 0 => multi.ret \in OwnErrors

\* The callback of one worker of the copier failed and Multi.Run returned its
\* error; the other worker then failed with the error of the cancelled
\* context, which nothing received
C35_Witness ==
    /\ MultiReturned
    /\ multi.ret = Wrap("FileCopier::ThemeAssets", Failed)
    /\ cancelled
    /\ \E p \in DOMAIN proc :
            /\ proc[p].pc = "result"
            /\ proc[p].held = Wrap("FileCopier::ThemeAssets", Canceled)

(***************************************************************************)
(* Properties of the Orderer when an upstream actor fails (SpecPosts)       *)
(***************************************************************************)
UpstreamOfOrderer == {"FileFinder::PostSources", "FileReader", "PostParser"}

\* The Run of an actor upstream of the Orderer has returned the error of its
\* own callback
UpstreamFailed ==
    \E a \in UpstreamOfOrderer \cap ActorList :
        Returned(a) /\ actorRun[a].ret = Wrap(a, Failed)

\* C36: when an actor upstream of the Orderer has failed, the Orderer's
\* end-of-input callback is not run on the posts received so far, and neither
\* a slice nor an ordered page has been received from the Orderer.
C36_NoOrderingAfterUpstreamFailure ==
    UpstreamFailed =>
        /\ doneCalls = 0
        /\ emitted["slices"] = <<>>
        /\ emitted["ordered"] = <<>>

\* Of two posts one reached the Orderer and the PostParser failed on the
\* other: the Orderer ordered the one post, the Indexer received a slice of
\* one post and the post Templater wrote the page of that post
C36_Witness ==
    /\ actorRun["PostParser"].ret = Wrap("PostParser", Failed)
    /\ Len(finder["FileFinder::PostSources"].fs["."]) = 2
    /\ doneCalls = 1
    /\ Len(emitted["slices"]) = 1
    /\ Len(emitted["slices"][1]) = 1
    /\ emitted["ordered"] = <<1>>
    /\ \E f \in files : f.Actor = "Templater[Post]"
    /\ ~panicked

(***************************************************************************)
(* Properties of the entries of an index (SpecTags)                         *)
(***************************************************************************)
\* C37: once the Indexer has consumed the slice, no index lists a post
\* twice, whatever the tag lists of the posts, and the global index has as
\* many entries as there are posts.
C37_PostOncePerIndex ==
    Ingested =>
        /\ \A id \in DOMAIN Indices : NoRepeat(Indices[id].Posts)
        /\ GlobalID \in DOMAIN Indices =>
                Len(Indices[GlobalID].Posts) = Len(orderedPages)

\* The one post of the site carries a tag whose text is empty: the global
\* index lists it twice
C37_Witness ==
    /\ Ingested
    /\ Len(orderedPages) = 1
    /\ orderedPages[1].Content.Tags = <<"">>
    /\ Indices[GlobalID].Posts = <<1, 1>>

\* The one post of the site names the tag go twice: the index of go lists it
\* twice
C37_RepeatedTagListedTwice ==
    /\ Ingested
    /\ Len(orderedPages) = 1
    /\ orderedPages[1].Content.Tags = <<"go", "go">>
    /\ Indices["go"].Posts = <<1, 1>>

(***************************************************************************)
(* Properties of what the Indexer writes (SpecOrder)                        *)
(***************************************************************************)
\* s and t hold the same entries the same number of times
SameEntries(s, t) ==
    /\ Len(s) = Len(t)
    /\ \A x \in SetOf(s) \cup SetOf(t) :
            Cardinality({i \in DOMAIN s : s[i] = x}) =
                Cardinality({i \in DOMAIN t : t[i] = x})

\* A step taken once the Orderer has sent its slice leaves the vector as it
\* was, appends to the lists of the indices (ingest) or reorders one
\* (pagination), and leaves every entry of a list pointing into the vector
IndexerStepKeepsPosts ==
    phase \in {"ordered", "indexed"} =>
        /\ orderedPages' = orderedPages
        /\ \A id \in DOMAIN Indices :
                /\ id \in DOMAIN Indices'
                /\ IF phase = "ordered"
                   THEN StartsWith(Indices'[id].Posts, Indices[id].Posts)
                   ELSE SameEntries(Indices'[id].Posts, Indices[id].Posts)
        /\ \A id \in DOMAIN Indices' :
                SetOf(Indices'[id].Posts) \subseteq DOMAIN orderedPages

\* C38: a step of the Indexer, ingest or pagination of an index, leaves the
\* Orderer's vector as it was: the same posts in the same order, each with
\* the same content, path, URL, order key and Prev/Next links.  To the list
\* of an index the ingest only appends and the pagination only reorders, and
\* every entry of a list points into the vector.
C38_IndexerLeavesPostsUnchanged == [][IndexerStepKeepsPosts]_vars

\* Three posts, the global index and the index of a tag some of them carry
\* paginated, and the vector still the slice the Orderer sent, links and all
C38_Witness ==
    /\ phase = "indexed"
    /\ Len(orderedPages) = 3
    /\ {GlobalID, "go"} \subseteq DOMAIN indexPages
    /\ Len(Indices["go"].Posts) \in 1..2
    /\ emitted["slices"] = <<orderedPages>>
    /\ orderedPages[2].Prev = orderedPages[3].URL
    /\ orderedPages[2].Next = orderedPages[1].URL

(***************************************************************************)
(* Properties of the listing of the global index (SpecTags, SpecOrder)      *)
(***************************************************************************)
GlobalPaginated == GlobalID \in DOMAIN indexPages

\* The posts of the pages of the global index, page 0 first
GlobalListing ==
    LET pages == indexPages[GlobalID]
    IN  Concat([k \in 1..Len(pages) |-> PageNumbered(pages, k - 1).Content.Posts])

\* The neighbours of every post in a listing are the posts its links name:
\* Prev is the post listed after it, Next the post listed before it
LinksFollow(listing) ==
    \A j \in DOMAIN listing :
        LET post == orderedPages[listing[j]]
        IN  /\ post.Prev = IF j < Len(listing)
                           THEN orderedPages[listing[j + 1]].URL ELSE Nil
            /\ post.Next = IF j > 1
                           THEN orderedPages[listing[j - 1]].URL ELSE Nil

SameSequenceAndLinks ==
    GlobalPaginated =>
        /\ GlobalListing = emitted["ordered"]
        /\ LinksFollow(GlobalListing)

\* C39: the posts of the global index, read page 0 first and within a page in
\* list order, are the sequence of pages the Orderer emitted, and the
\* Prev/Next links of each post name its neighbours in that listing, whatever
\* the posts.
C39_GlobalListingIsEmittedSequence ==
    phase = "indexed" => SameSequenceAndLinks

\* The one post of the site carries a tag whose text is empty: the Orderer
\* emitted it once, the global index lists it twice, and the post without
\* links has itself for neighbour
C39_Witness ==
    /\ phase = "indexed"
    /\ GlobalPaginated
    /\ emitted["ordered"] = <<1>>
    /\ GlobalListing = <<1, 1>>
    /\ orderedPages[1].Prev = Nil

\* The same statement for posts whose tags are the plain ones of SpecOrder:
\* it holds there
C39_PlainTagsSameSequence ==
    phase = "indexed" /\ TagTextsSeen \subseteq TagTexts => SameSequenceAndLinks

\* Three posts on two pages of the global index, listed as emitted
C39_PlainTagsWitness ==
    /\ phase = "indexed"
    /\ GlobalPaginated
    /\ pageSize = 2
    /\ Len(indexPages[GlobalID]) = 2
    /\ GlobalListing = <<1, 2, 3>>
    /\ emitted["ordered"] = <<1, 2, 3>>

(***************************************************************************)
(* Properties of the links of a post body (SpecLinks)                       *)
(***************************************************************************)
\* What follows the last "/" of a text (the text itself when it has none)
RECURSIVE AfterLastSlash(_)
AfterLastSlash(s) ==
    LET c == Cut(s, "/")
    IN  IF c.before = s THEN s ELSE AfterLastSlash(c.after)

Converted == phase = "unit" /\ Len(result) = 1 /\ buffer \in Destinations

\* The destination of the link as a reference resolved against the page
ResolvedDestination == URLString(ResolveReference(result[1].current, Parse(buffer)))

UnderBase == HasPrefix(ResolvedDestination, URLString(BaseURL))

WithoutSuffix(s, suffix) == SubSeq(s, 1, Len(s) - Len(suffix))

\* The href of a link rendered as the claim has it
RewrittenOrKept ==
    IF UnderBase /\ HasSuffix(buffer, markdownSuffix)
    THEN /\ HasSuffix(result[1].href, htmlSuffix)
         /\ WithoutSuffix(result[1].href, htmlSuffix) =
                WithoutSuffix(ResolvedDestination, markdownSuffix)
    ELSE HasSuffix(result[1].href, AfterLastSlash(buffer))

\* C40: a link whose destination resolves under the base URL and ends in .md
\* is rendered with an href that ends in .html after the same text; the href
\* of any other link ends as the destination ends.
C40_MarkdownLinksRewritten == Converted => RewrittenOrKept

\* The destination /a.md#s, rooted at the site and with a fragment, does not
\* end in .md; its href is http://site/a.html, without the fragment
C40_Witness ==
    /\ Converted
    /\ buffer = "/a.md#s"
    /\ result[1].href = "http://site/a.html"

\* The destination /a?f=a.md ends in .md and resolves under the base URL;
\* its href is http://site/a, without the query and not ending in .html
C40_QueryDropped ==
    /\ Converted
    /\ buffer = "/a?f=a.md"
    /\ result[1].href = "http://site/a"

\* The destinations rooted at the site ("/..") that have a query or a
\* fragment
RootedWithQueryOrFragment ==
    /\ HasPrefix(buffer, "/")
    /\ Parse(buffer).RawQuery # "" \/ Parse(buffer).Fragment # ""

\* The same statement for every other destination: it holds there
C40_OtherLinksRewritten ==
    Converted /\ ~RootedWithQueryOrFragment => RewrittenOrKept

\* Links of the kinds the statement holds for: relative to the page, rooted
\* at the site, and on another host
C40_OtherLinksWitness ==
    /\ Converted
    /\ \/ buffer = "docs/a.md" /\ result[1].href = "http://site/posts/docs/a.html"
       \/ buffer = "/a.md" /\ result[1].href = "http://site/a.html"
       \/ buffer = "http://other/a.md" /\ result[1].href = "http://other/a.md"
       \/ buffer = "a.md#s" /\ result[1].href = "http://site/posts/a.md#s"

====
